---- MODULE Spec2Model ----
(***************************************************************************)
(* Folio (public/js/app.js): the client-side response cache FolioCache and *)
(* the catalog loaders of folioApp() that sit behind it: the iTunes search *)
(* view (searchBooks / loadMoreiTunesSearch), the bookshelf view           *)
(* (openBookshelf / loadMoreBookshelf / closeBookshelf) and the Hardcover  *)
(* home sections (loadHardcoverData and the loaders it starts).            *)
(*                                                                         *)
(* The browser runs one handler at a time.  An async function runs without *)
(* interruption up to its first await on fetch(); the suspended call is    *)
(* kept in `calls` and resumed by a Resolve action when the response (or   *)
(* the rejection) arrives.  Continuations that only wait on promises of    *)
(* this program (Promise.all, await of an async method) run as microtasks  *)
(* of the step that settled the last of those promises.                    *)
(***************************************************************************)
EXTENDS Integers, Sequences, FiniteSets, TLC

(***************************************************************************)
(* Bounds of the model.                                                    *)
(***************************************************************************)
\* fetches a run of Spec issues for the search or the bookshelf view
MaxCalls == 2
\* the same, for a run of SpecDeep
MaxDeepCalls == 3
\* fetches a run issues for the home sections
MaxHomeCalls == 5
\* clock advances in one run
MaxTicks == 1
\* milliseconds a run of SpecCache lasts
MaxCacheTime == 3

(***************************************************************************)
(* Program constants.                                                      *)
(***************************************************************************)
\* FolioCache.TTL, milliseconds
TTL ==
    [HARDCOVER_TRENDING |-> 5 * 60 * 1000,
     HARDCOVER_RECENT   |-> 5 * 60 * 1000,
     HARDCOVER_LISTS    |-> 10 * 60 * 1000,
     HARDCOVER_LIST     |-> 10 * 60 * 1000,
     ITUNES_SEARCH      |-> 30 * 60 * 1000]

\* loadMoreiTunesSearch: const pageSize = 20
pageSize == 20

\* loadMoreBookshelf: const limit = 30
limit == 30

\* this.hardcoverAuthor is never assigned: the template literal prints "undefined"
hardcoverAuthor == "undefined"

\* The clock is read again just after the shortest TTL has run out.
TickStep == 5 * 60 * 1000 + 1

\* The views of the application.  A run drives one of them: they share no
\* field of the application and no cache key, and each has its own bound.
Views == {"search", "bookshelf", "home"}

VARIABLES
    now,                    \* Date.now()
    storage,                \* sessionStorage: item name -> [data, expiry]
    calls,                  \* the async calls suspended at their fetch, oldest first
    \* search view
    searchQuery,
    searchiTunesResults,
    searchiTunesPage,
    searchiTunesHasMore,
    loadingSearchiTunes,
    \* bookshelf view
    sortedBooks,
    showBookshelf,
    bookshelfBooks,
    bookshelfType,
    bookshelfHasMore,
    loadingMoreBookshelf,
    \* home sections
    hardcoverToken,
    hardcoverLoading,
    loadingHardcoverLists,
    hardcoverTrending,
    hardcoverTrendingMonth,
    hardcoverRecentReleases,
    hardcoverSections,
    listPromises,           \* loadHardcoverLists suspended at Promise.all: its lists' results
    \* history of the run
    driven,                 \* the view this run drives
    ticks,                  \* clock advances so far
    budget,                 \* fetches this run may issue for the search or the bookshelf view
    issued,                 \* fetches issued so far
    loaded,                 \* cache key -> how the last fetch for it settled
    requested,              \* view -> the pages fetched since the view's last reset
    merged,                 \* view -> the pages merged since the view's last reset
    written,                \* the last call a direct caller of FolioCache.set made
    \* reconciliation with the local library
    libraryBooks,           \* this.books: the local library, in load order
    requestedBooks,         \* this.requestedBooks
    given,                  \* the catalog items of the last matchWithLibrary call made
                            \* since the library and the requests were loaded
    annotated,              \* what that call returned, or that it threw
    probed,                 \* the last function of the reconciliation applied on its own
    pass,                   \* the matchWithLibrary call that is running, <<>> when none is
    serverRequests,         \* the request list the server keeps
    \* iTunes lookups for a book of the library
    selectedBookiTunesMatch,
    itunesMetadataResults,
    searchingItunesMetadata,
    \* camera capture and navigation
    showCameraCapture,
    cameraState,
    cameraStream,           \* the id of the MediaStream held, 0 for null
    cameraRequestId,
    capturedImageSrc,
    showRequests,
    currentView,
    liveStreams             \* the ids of the MediaStreams whose tracks are not stopped

searchVars == <<searchQuery, searchiTunesResults, searchiTunesPage,
                searchiTunesHasMore, loadingSearchiTunes>>
shelfVars == <<sortedBooks, showBookshelf, bookshelfBooks, bookshelfType,
               bookshelfHasMore, loadingMoreBookshelf>>
homeVars == <<hardcoverToken, hardcoverLoading, loadingHardcoverLists, hardcoverTrending,
              hardcoverTrendingMonth, hardcoverRecentReleases, hardcoverSections,
              listPromises>>
matchVars == <<libraryBooks, requestedBooks, given, annotated, probed, pass, serverRequests>>
itunesVars == <<selectedBookiTunesMatch, itunesMetadataResults, searchingItunesMetadata>>
cameraVars == <<showCameraCapture, cameraState, cameraStream, cameraRequestId,
                capturedImageSrc, showRequests, currentView, liveStreams>>
vars == <<now, storage, calls, searchVars, shelfVars, homeVars,
          driven, written, matchVars, itunesVars, cameraVars, ticks, budget, issued, loaded, requested, merged>>

(***************************************************************************)
(* Values.                                                                 *)
(***************************************************************************)
\* A catalog book: `id` is the provider's id; `src` records the request
\* argument (search query, bookshelf type, section, list id) it was returned for.
Book(id, src) == [id |-> id, src |-> src]

\* books with ids a..b, in order
BookRange(a, b, src) == [i \in 1..(b - a + 1) |-> Book(a + i - 1, src)]

\* A parsed response body.  isNull: the JS null (no cached value).
\* error: data.error is set.  hasBooks: data.books is present.  lists: data.lists.
Payload(err, hasBooks, books) ==
    [isNull |-> FALSE, error |-> err, hasBooks |-> hasBooks, books |-> books, lists |-> <<>>]

ListsPayload(lists) ==
    [isNull |-> FALSE, error |-> FALSE, hasBooks |-> FALSE, books |-> <<>>, lists |-> lists]

Null == [isNull |-> TRUE, error |-> FALSE, hasBooks |-> FALSE, books |-> <<>>, lists |-> <<>>]

\* What a fetch settles with: ok = FALSE when fetch() or response.json() rejects.
Response(ok, data) == [ok |-> ok, data |-> data]

Truthy(data) == ~data.isNull

\* data.books || []
BooksOrEmpty(data) == IF data.hasBooks THEN data.books ELSE <<>>

\* Number -> decimal string, as a template literal prints it
Digit(d) == SubSeq("0123456789", d + 1, d + 1)

RECURSIVE NumStr(_)
NumStr(n) == IF n < 10 THEN Digit(n) ELSE NumStr(n \div 10) \o Digit(n % 10)

\* String.prototype.startsWith
StartsWith(s, p) == Len(s) >= Len(p) /\ SubSeq(s, 1, Len(p)) = p

\* the characters trim() removes and \s matches: a space or a tab
Whitespace == {" ", "\t"}

\* String.prototype.trim
RECURSIVE trim(_)
trim(s) ==
    IF Len(s) = 0 THEN s
    ELSE IF SubSeq(s, 1, 1) \in Whitespace THEN trim(SubSeq(s, 2, Len(s)))
    ELSE IF SubSeq(s, Len(s), Len(s)) \in Whitespace THEN trim(SubSeq(s, 1, Len(s) - 1))
    ELSE s

\* Array.prototype.slice(a, b) on a sequence (0-based, end exclusive)
slice(s, a, b) ==
    LET lo == IF a < Len(s) THEN a ELSE Len(s)
        hi == IF b < Len(s) THEN b ELSE Len(s)
    IN IF hi <= lo THEN <<>> ELSE SubSeq(s, lo + 1, hi)

(***************************************************************************)
(* FolioCache                                                              *)
(***************************************************************************)
ItemName(key) == "folio_cache_" \o key

RemoveItem(st, name) == [n \in DOMAIN st \ {name} |-> st[n]]

\* setItem that leaves an item that exists as it is
SetItem_KeepsFirst(st, name, item) ==
    [n \in DOMAIN st \cup {name} |-> IF n \in DOMAIN st THEN st[n] ELSE item]

\* sessionStorage.setItem(name, item): one item per name, the last one set
SetItem(st, name, item) ==
    [n \in DOMAIN st \cup {name} |-> IF n = name THEN item ELSE st[n]]

\* FolioCache.get that never finds an item
FolioCache_get_AlwaysMiss(st, t, key) == [data |-> Null, storage |-> st]

\* FolioCache.get(key) at time t: the value returned and the storage left
FolioCache_get(st, t, key) ==
    IF ItemName(key) \notin DOMAIN st
    THEN [data |-> Null, storage |-> st]
    ELSE IF t > st[ItemName(key)].expiry
         THEN [data |-> Null, storage |-> RemoveItem(st, ItemName(key))]
         ELSE [data |-> st[ItemName(key)].data, storage |-> st]

\* FolioCache.set with the ttl dropped from the expiry
FolioCache_set_NoTtl(st, t, key, data, ttl, quotaOk) ==
    IF quotaOk
    THEN SetItem(st, ItemName(key), [data |-> data, expiry |-> t])
    ELSE st

\* FolioCache.set(key, data, ttl) at time t: the storage left.  quotaOk is
\* FALSE when sessionStorage.setItem throws (the catch swallows it).
FolioCache_set(st, t, key, data, ttl, quotaOk) ==
    IF quotaOk
    THEN SetItem(st, ItemName(key), [data |-> data, expiry |-> t + ttl])
    ELSE st

\* FolioCache.clear that stops after the first item it removes
FolioCache_clear_FirstOnly(st) ==
    LET keys == {n \in DOMAIN st : StartsWith(n, "folio_cache_")}
    IN IF keys = {} THEN st ELSE RemoveItem(st, CHOOSE n \in keys : TRUE)

\* FolioCache.clear(): the names that start with folio_cache_ are collected,
\* then each is removed; items of other names stay
FolioCache_clear(st) ==
    LET keys == {n \in DOMAIN st : StartsWith(n, "folio_cache_")}
    IN [n \in DOMAIN st \ keys |-> st[n]]

(***************************************************************************)
(* Async calls                                                             *)
(***************************************************************************)
\* A call suspended at `await fetch(...)`, with the locals it resumes with.
\*   fn        the async function
\*   view      the view or section it loads
\*   cacheKey  the key it read with FolioCache.get before fetching ("" if it read none)
\*   arg       the request argument (query, bookshelf type, section, list id)
\*   offset    the offset requested
\*   nextPage  loadMoreiTunesSearch's local nextPage
\*   parent    the loadHardcoverData() invocation that awaits it (0: none)
\*   slot      loadHardcoverList: its position in listPromises
\*   cur       issued since the view's last reset
Call(fn, view, cacheKey, arg, offset, nextPage, parent, slot) ==
    [fn |-> fn, view |-> view, cacheKey |-> cacheKey, arg |-> arg, offset |-> offset,
     nextPage |-> nextPage, parent |-> parent, slot |-> slot, cur |-> TRUE]

\* cs with the call c suspended at its fetch
Suspend(cs, c) == Append(cs, c)

\* the call at position i has settled
RemoveAt(cs, i) == SubSeq(cs, 1, i - 1) \o SubSeq(cs, i + 1, Len(cs))

\* the suspended calls of a view
PendingOf(view) == {i \in DOMAIN calls : calls[i].view = view}

\* the view is reset: its suspended calls no longer belong to the current sequence
ResetView(cs, view) ==
    [i \in DOMAIN cs |-> IF cs[i].view = view THEN [cs[i] EXCEPT !.cur = FALSE] ELSE cs[i]]

\* An entry of `requested` or `merged`: the page's offset, and whether the
\* page was fetched, or grew the list, while the view's hasMore was false
\* (the first page that openBookshelf itself loads apart)
Page(offset, late) == [offset |-> offset, late |-> late]

\* A response the spec calls successful: the fetch fulfilled with a body
\* that carries books and no error.
Success(r) == r.ok /\ ~r.data.error /\ r.data.hasBooks

\* The fetch for cacheKey settled at time t with the response r; refused:
\* the response was successful and sessionStorage rejected the write.
Settled(ld, key, t, r, quotaOk) ==
    IF key = "" THEN ld
    ELSE [k \in DOMAIN ld \cup {key} |->
            IF k = key
            THEN [end |-> t, ok |-> Success(r), refused |-> Success(r) /\ ~quotaOk]
            ELSE ld[k]]

(***************************************************************************)
(* The external catalog                                                    *)
(***************************************************************************)
\* The pages a provider may answer a request of `size` books with, whatever
\* the offset asked for: a full page (answered twice, two pages that overlap),
\* a short page that repeats a book, and an empty page.
Pages(src, size) ==
    { BookRange(1, size, src),
      <<Book(size + 1, src), Book(size + 1, src)>>,
      <<>> }

\* What a catalog fetch may settle with: a rejection, an error body, or books.
Responses(src, size) ==
    { Response(FALSE, Null), Response(TRUE, Payload(TRUE, FALSE, <<>>)) }
    \cup { Response(TRUE, Payload(FALSE, TRUE, p)) : p \in Pages(src, size) }

(***************************************************************************)
(* Search view                                                             *)
(***************************************************************************)
\* the queries typed into the search box
Queries == {" ", "dune", "emma"}

\* loadMoreiTunesSearch: the key of a search page
SearchCacheKey(q, offset) ==
    "itunes_search_" \o q \o "_" \o NumStr(pageSize) \o "_" \o NumStr(offset)

\* loadMoreiTunesSearch, from `if (data.books && data.books.length > 0)` to
\* the end of the try block: the view's fields after `data` is handled
SearchMerge(results, page, data, nextPage) ==
    IF data.hasBooks /\ Len(data.books) > 0
    THEN LET existingIds == {results[i].id : i \in DOMAIN results}
             newBooks == SelectSeq(data.books, LAMBDA b : b.id \notin existingIds)
         IN [results |-> results \o newBooks,
             page    |-> nextPage,
             hasMore |-> Len(data.books) >= pageSize,
             grew    |-> TRUE]
    ELSE [results |-> results, page |-> page, hasMore |-> FALSE, grew |-> FALSE]

\* loadMoreiTunesSearch() up to its await, entered with the view in the state
\* (q, results, page, hasMore, loading), the calls cs and the history (rq, mg)
loadMoreiTunesSearchFrom(q, results, page, hasMore, loading, cs, rq, mg) ==
    IF trim(q) = "" \/ loading \/ ~hasMore
    THEN /\ searchiTunesResults' = results
         /\ searchiTunesPage' = page
         /\ searchiTunesHasMore' = hasMore
         /\ loadingSearchiTunes' = loading
         /\ calls' = cs
         /\ storage' = storage
         /\ issued' = issued
         /\ requested' = [requested EXCEPT !.search = rq]
         /\ merged' = [merged EXCEPT !.search = mg]
    ELSE LET nextPage == page + 1
             offset == (nextPage - 1) * pageSize
             cacheKey == SearchCacheKey(q, offset)
             cached == FolioCache_get(storage, now, cacheKey)
         IN IF Truthy(cached.data)
            THEN LET m == SearchMerge(results, page, cached.data, nextPage)
                 IN /\ searchiTunesResults' = m.results
                    /\ searchiTunesPage' = m.page
                    /\ searchiTunesHasMore' = m.hasMore
                    /\ loadingSearchiTunes' = FALSE
                    /\ calls' = cs
                    /\ storage' = cached.storage
                    /\ issued' = issued
                    /\ requested' = [requested EXCEPT !.search = rq]
                    /\ merged' = [merged EXCEPT
                                    !.search = IF m.grew THEN Append(mg, Page(offset, FALSE)) ELSE mg]
            ELSE /\ issued < budget
                 /\ searchiTunesResults' = results
                 /\ searchiTunesPage' = page
                 /\ searchiTunesHasMore' = hasMore
                 /\ loadingSearchiTunes' = TRUE
                 /\ calls' = Suspend(cs, Call("loadMoreiTunesSearch", "search", cacheKey,
                                              q, offset, nextPage, 0, 0))
                 /\ storage' = cached.storage
                 /\ issued' = issued + 1
                 /\ requested' = [requested EXCEPT !.search = Append(rq, Page(offset, FALSE))]
                 /\ merged' = [merged EXCEPT !.search = mg]

\* The search box changes to q and searchBooks() runs.
searchBooks(q) ==
    /\ driven = "search"
    /\ searchQuery' = q
    /\ IF trim(q) = ""
       THEN /\ searchiTunesResults' = <<>>
            /\ loadingSearchiTunes' = FALSE
            /\ searchiTunesHasMore' = FALSE
            /\ searchiTunesPage' = 0
            /\ calls' = ResetView(calls, "search")
            /\ requested' = [requested EXCEPT !.search = <<>>]
            /\ merged' = [merged EXCEPT !.search = <<>>]
            /\ UNCHANGED <<storage, issued>>
       ELSE loadMoreiTunesSearchFrom(q, <<>>, 0, TRUE, loadingSearchiTunes,
                                     ResetView(calls, "search"), <<>>, <<>>)
    /\ UNCHANGED <<now, shelfVars, homeVars, driven, cameraVars, itunesVars, written, matchVars, ticks, budget, loaded>>

\* The scroll handler reaches the bottom of the results: loadMoreiTunesSearch().
loadMoreiTunesSearch ==
    /\ driven = "search"
    /\ loadMoreiTunesSearchFrom(searchQuery, searchiTunesResults, searchiTunesPage,
                                searchiTunesHasMore, loadingSearchiTunes, calls,
                                requested.search, merged.search)
    /\ UNCHANGED <<now, searchQuery, shelfVars, homeVars, driven, cameraVars, itunesVars, written, matchVars, ticks, budget, loaded>>

\* The fetch of the suspended loadMoreiTunesSearch call i settles with r.
ResolveSearch(i, r, quotaOk) ==
    /\ i \in DOMAIN calls
    /\ calls[i].fn = "loadMoreiTunesSearch"
    /\ IF ~r.ok
       THEN /\ searchiTunesHasMore' = FALSE
            /\ UNCHANGED <<storage, searchiTunesResults, searchiTunesPage, merged>>
       ELSE LET m == SearchMerge(searchiTunesResults, searchiTunesPage, r.data,
                                 calls[i].nextPage)
            IN /\ storage' = IF r.data.hasBooks
                             THEN FolioCache_set(storage, now, calls[i].cacheKey, r.data,
                                                 TTL.ITUNES_SEARCH, quotaOk)
                             ELSE storage
               /\ searchiTunesResults' = m.results
               /\ searchiTunesPage' = m.page
               /\ searchiTunesHasMore' = m.hasMore
               /\ merged' = [merged EXCEPT
                               !.search = IF m.grew
                                          THEN Append(@, Page(calls[i].offset,
                                                              ~searchiTunesHasMore
                                                              /\ m.results # searchiTunesResults))
                                          ELSE @]
    /\ loadingSearchiTunes' = FALSE
    /\ calls' = RemoveAt(calls, i)
    /\ loaded' = Settled(loaded, calls[i].cacheKey, now, r, quotaOk)
    /\ UNCHANGED <<now, searchQuery, shelfVars, homeVars, driven, cameraVars, itunesVars, written, matchVars, ticks, budget, issued, requested>>

(***************************************************************************)
(* Bookshelf view                                                          *)
(***************************************************************************)
BookshelfTypes == {"library", "trending", "author", "list-7"}

\* openBookshelf, the switch: the cache key of the types that fetch ("" for the others)
BookshelfCacheKey(type) ==
    CASE type = "trending"       -> "bookshelf_trending_30"
      [] type = "trending-month" -> "bookshelf_trending_month_30"
      [] type = "recent"         -> "bookshelf_recent_30"
      [] type = "author"         -> "bookshelf_author_" \o hardcoverAuthor \o "_30"
      [] OTHER -> IF StartsWith(type, "list-")
                  THEN "bookshelf_list_" \o SubSeq(type, 6, Len(type)) \o "_30"
                  ELSE ""

\* openBookshelf, the switch: the TTL its FolioCache.set uses
BookshelfTTL(type) ==
    CASE type = "trending"       -> TTL.HARDCOVER_TRENDING
      [] type = "trending-month" -> TTL.HARDCOVER_TRENDING
      [] type = "recent"         -> TTL.HARDCOVER_RECENT
      [] OTHER                   -> TTL.HARDCOVER_LIST

\* openBookshelf, `if (data && data.books)`: the view's fields after `data`
BookshelfShow(books, hasMore, data) ==
    IF Truthy(data) /\ data.hasBooks
    THEN [books |-> data.books, hasMore |-> Len(data.books) >= 30, shown |-> TRUE]
    ELSE [books |-> books, hasMore |-> hasMore, shown |-> FALSE]

\* A section header (or a restored view) opens the bookshelf: openBookshelf(type, title)
openBookshelf(type) ==
    /\ driven = "bookshelf"
    /\ bookshelfType' = type
    /\ showBookshelf' = TRUE
    /\ IF type = "library"
       THEN /\ bookshelfBooks' = slice(sortedBooks, 0, 30)
            /\ bookshelfHasMore' = (Len(sortedBooks) > 30)
            /\ calls' = ResetView(calls, "bookshelf")
            /\ requested' = [requested EXCEPT !.bookshelf = <<>>]
            /\ merged' = [merged EXCEPT !.bookshelf = <<>>]
            /\ UNCHANGED <<storage, issued>>
       ELSE IF type = "library-all"
       THEN /\ bookshelfBooks' = sortedBooks
            /\ bookshelfHasMore' = FALSE
            /\ calls' = ResetView(calls, "bookshelf")
            /\ requested' = [requested EXCEPT !.bookshelf = <<>>]
            /\ merged' = [merged EXCEPT !.bookshelf = <<>>]
            /\ UNCHANGED <<storage, issued>>
       ELSE IF BookshelfCacheKey(type) = ""
       THEN /\ bookshelfBooks' = <<>>
            /\ bookshelfHasMore' = FALSE
            /\ calls' = ResetView(calls, "bookshelf")
            /\ requested' = [requested EXCEPT !.bookshelf = <<>>]
            /\ merged' = [merged EXCEPT !.bookshelf = <<>>]
            /\ UNCHANGED <<storage, issued>>
       ELSE LET cacheKey == BookshelfCacheKey(type)
                cached == FolioCache_get(storage, now, cacheKey)
            IN IF Truthy(cached.data)
               THEN LET m == BookshelfShow(<<>>, FALSE, cached.data)
                    IN /\ bookshelfBooks' = m.books
                       /\ bookshelfHasMore' = m.hasMore
                       /\ calls' = ResetView(calls, "bookshelf")
                       /\ storage' = cached.storage
                       /\ issued' = issued
                       /\ requested' = [requested EXCEPT !.bookshelf = <<>>]
                       /\ merged' = [merged EXCEPT
                                       !.bookshelf = IF m.shown THEN <<Page(0, FALSE)>> ELSE <<>>]
               ELSE /\ issued < budget
                    /\ bookshelfBooks' = <<>>
                    /\ bookshelfHasMore' = FALSE
                    /\ calls' = Suspend(ResetView(calls, "bookshelf"),
                                        Call("openBookshelf", "bookshelf", cacheKey, type,
                                             0, 0, 0, 0))
                    /\ storage' = cached.storage
                    /\ issued' = issued + 1
                    /\ requested' = [requested EXCEPT !.bookshelf = <<Page(0, FALSE)>>]
                    /\ merged' = [merged EXCEPT !.bookshelf = <<>>]
    /\ UNCHANGED <<now, searchVars, sortedBooks, loadingMoreBookshelf, homeVars,
                   driven, cameraVars, itunesVars, written, matchVars, ticks, budget, loaded>>

\* The fetch of the suspended openBookshelf call i settles with r.
ResolveOpenBookshelf(i, r, quotaOk) ==
    /\ i \in DOMAIN calls
    /\ calls[i].fn = "openBookshelf"
    /\ IF ~r.ok
       THEN UNCHANGED <<storage, bookshelfBooks, bookshelfHasMore, merged>>
       ELSE LET m == BookshelfShow(bookshelfBooks, bookshelfHasMore, r.data)
            IN /\ storage' = IF r.data.hasBooks
                             THEN FolioCache_set(storage, now, calls[i].cacheKey, r.data,
                                                 BookshelfTTL(calls[i].arg), quotaOk)
                             ELSE storage
               /\ bookshelfBooks' = m.books
               /\ bookshelfHasMore' = m.hasMore
               /\ merged' = [merged EXCEPT
                               !.bookshelf = IF m.shown
                                             THEN Append(@, Page(0, ~calls[i].cur /\ ~bookshelfHasMore
                                                                  /\ m.books # bookshelfBooks))
                                             ELSE @]
    /\ calls' = RemoveAt(calls, i)
    /\ loaded' = Settled(loaded, calls[i].cacheKey, now, r, quotaOk)
    /\ UNCHANGED <<now, searchVars, sortedBooks, showBookshelf, bookshelfType,
                   loadingMoreBookshelf, homeVars, driven, cameraVars, itunesVars, written, matchVars, ticks, budget, issued, requested>>

\* loadMoreBookshelf, the switch: the types whose next page is fetched
FetchesMore(type) ==
    type \in {"trending", "trending-month", "recent"} \/ StartsWith(type, "list-")

\* The scroll handler reaches the bottom of the open bookshelf (grid view):
\* loadMoreBookshelf()
loadMoreBookshelf ==
    /\ driven = "bookshelf"
    /\ showBookshelf
    /\ ~(loadingMoreBookshelf \/ ~bookshelfHasMore)
    /\ LET offset == Len(bookshelfBooks)
           type == bookshelfType
       IN IF type = "library"
          THEN /\ bookshelfBooks' = bookshelfBooks \o slice(sortedBooks, offset, offset + limit)
               /\ bookshelfHasMore' = (offset + limit < Len(sortedBooks))
               /\ loadingMoreBookshelf' = FALSE
               /\ UNCHANGED <<calls, issued, requested>>
          ELSE IF FetchesMore(type)
          THEN /\ issued < budget
               /\ loadingMoreBookshelf' = TRUE
               /\ calls' = Suspend(calls, Call("loadMoreBookshelf", "bookshelf", "", type,
                                               offset, 0, 0, 0))
               /\ issued' = issued + 1
               /\ requested' = [requested EXCEPT !.bookshelf = Append(@, Page(offset, FALSE))]
               /\ UNCHANGED <<bookshelfBooks, bookshelfHasMore>>
          ELSE /\ loadingMoreBookshelf' = FALSE
               /\ UNCHANGED <<bookshelfBooks, bookshelfHasMore, calls, issued, requested>>
    /\ UNCHANGED <<now, storage, searchVars, sortedBooks, showBookshelf, bookshelfType,
                   homeVars, driven, cameraVars, itunesVars, written, matchVars, ticks, budget, loaded, merged>>

\* The fetch of the suspended loadMoreBookshelf call i settles with r.
ResolveMoreBookshelf(i, r) ==
    /\ i \in DOMAIN calls
    /\ calls[i].fn = "loadMoreBookshelf"
    /\ IF r.ok /\ r.data.hasBooks
       THEN /\ bookshelfBooks' = bookshelfBooks \o r.data.books
            /\ bookshelfHasMore' = (Len(r.data.books) >= limit)
            /\ merged' = [merged EXCEPT
                            !.bookshelf = Append(@, Page(calls[i].offset,
                                                         ~bookshelfHasMore
                                                         /\ Len(r.data.books) > 0))]
       ELSE UNCHANGED <<bookshelfBooks, bookshelfHasMore, merged>>
    /\ loadingMoreBookshelf' = FALSE
    /\ calls' = RemoveAt(calls, i)
    /\ UNCHANGED <<now, storage, searchVars, sortedBooks, showBookshelf, bookshelfType,
                   homeVars, driven, cameraVars, itunesVars, written, matchVars, ticks, budget, issued, loaded, requested>>

\* The back button (or history navigation) closes the bookshelf: closeBookshelf()
closeBookshelf ==
    /\ driven = "bookshelf"
    /\ showBookshelf' = FALSE
    /\ bookshelfBooks' = <<>>
    /\ bookshelfType' = ""
    /\ bookshelfHasMore' = FALSE
    /\ loadingMoreBookshelf' = FALSE
    /\ calls' = ResetView(calls, "bookshelf")
    /\ requested' = [requested EXCEPT !.bookshelf = <<>>]
    /\ merged' = [merged EXCEPT !.bookshelf = <<>>]
    /\ UNCHANGED <<now, storage, searchVars, sortedBooks, homeVars, driven, cameraVars, itunesVars, written, matchVars, ticks,
                   budget, issued, loaded>>

(***************************************************************************)
(* Home sections                                                           *)
(***************************************************************************)
\* What a section or list fetch may settle with: a rejection, an error body,
\* a body without books, or books.
HomeResponses(src) ==
    { Response(FALSE, Null),
      Response(TRUE, Payload(TRUE, FALSE, <<>>)),
      Response(TRUE, Payload(FALSE, FALSE, <<>>)),
      Response(TRUE, Payload(FALSE, TRUE, <<Book(1, src)>>)) }

\* What the fetch of the lists index may settle with.
ListsResponses ==
    { Response(FALSE, Null),
      Response(TRUE, Payload(TRUE, FALSE, <<>>)),
      Response(TRUE, ListsPayload(<<>>)),
      Response(TRUE, ListsPayload(<<"7">>)),
      Response(TRUE, ListsPayload(<<"7", "8">>)) }

\* The three sections loaded by the same code: the field each fills, with
\* its cache key and TTL.
Sections ==
    [hardcoverRecentReleases |->
        [fn |-> "loadHardcoverRecent", cacheKey |-> "hardcover_recent_20",
         ttl |-> TTL.HARDCOVER_RECENT],
     hardcoverTrending |->
        [fn |-> "loadHardcoverTrending", cacheKey |-> "hardcover_trending_20",
         ttl |-> TTL.HARDCOVER_TRENDING],
     hardcoverTrendingMonth |->
        [fn |-> "loadHardcoverTrendingMonth", cacheKey |-> "hardcover_trending_month_20",
         ttl |-> TTL.HARDCOVER_TRENDING]]

\* The state a handler threads through the loaders it starts.
HomeState ==
    [storage |-> storage, calls |-> calls, issued |-> issued,
     hardcoverRecentReleases |-> hardcoverRecentReleases,
     hardcoverTrending |-> hardcoverTrending,
     hardcoverTrendingMonth |-> hardcoverTrendingMonth,
     hardcoverSections |-> hardcoverSections,
     loadingHardcoverLists |-> loadingHardcoverLists]

\* A section loader up to its await: a cache hit fills the section, a miss
\* suspends the call at its fetch.
LoadSection(a, field, parent) ==
    LET sec == Sections[field]
        cached == FolioCache_get(a.storage, now, sec.cacheKey)
    IN IF Truthy(cached.data)
       THEN [a EXCEPT !.storage = cached.storage,
                      ![field] = BooksOrEmpty(cached.data)]
       ELSE [a EXCEPT !.storage = cached.storage,
                      !.calls = Suspend(@, Call(sec.fn, "home", sec.cacheKey, field,
                                                0, 0, parent, 0)),
                      !.issued = @ + 1]

loadHardcoverRecent(a, parent) == LoadSection(a, "hardcoverRecentReleases", parent)

loadHardcoverTrending(a, parent) == LoadSection(a, "hardcoverTrending", parent)

loadHardcoverTrendingMonth(a, parent) == LoadSection(a, "hardcoverTrendingMonth", parent)

\* loadHardcoverLists() up to its await on the fetch of the lists index
loadHardcoverLists(a, parent) ==
    IF a.loadingHardcoverLists THEN a
    ELSE [a EXCEPT !.loadingHardcoverLists = TRUE,
                   !.hardcoverSections = <<>>,
                   !.calls = Suspend(@, Call("loadHardcoverLists", "home", "", "lists",
                                             0, 0, parent, 0)),
                   !.issued = @ + 1]

\* a Promise.all that never settles
Awaited_Forever(cs, parent) == TRUE

\* some call awaited by the loadHardcoverData() invocation `parent` is suspended in cs
Awaited(cs, parent) == \E i \in DOMAIN cs : cs[i].parent = parent

\* init() reads the configuration before it loads the application: the
\* server says whether a Hardcover token is set (data.hardcover_token || false)
loadConfig(token) ==
    /\ driven = "home"
    /\ issued = 0
    /\ hardcoverToken' = token
    /\ UNCHANGED <<now, storage, calls, searchVars, shelfVars, hardcoverLoading,
                   loadingHardcoverLists, hardcoverTrending, hardcoverTrendingMonth,
                   hardcoverRecentReleases, hardcoverSections, listPromises, driven, cameraVars, itunesVars,
                   written, matchVars, ticks, budget, issued, loaded, requested, merged>>

\* loadApp() reaches loadHardcoverData(); without a token it returns at once
loadHardcoverData ==
    /\ driven = "home"
    /\ hardcoverToken
    /\ LET parent == issued + 1
           a == loadHardcoverLists(
                    loadHardcoverTrendingMonth(
                        loadHardcoverTrending(
                            loadHardcoverRecent(HomeState, parent), parent), parent), parent)
       IN /\ a.issued <= MaxHomeCalls
          /\ storage' = a.storage
          /\ calls' = a.calls
          /\ issued' = a.issued
          /\ hardcoverRecentReleases' = a.hardcoverRecentReleases
          /\ hardcoverTrending' = a.hardcoverTrending
          /\ hardcoverTrendingMonth' = a.hardcoverTrendingMonth
          /\ hardcoverSections' = a.hardcoverSections
          /\ loadingHardcoverLists' = a.loadingHardcoverLists
          /\ hardcoverLoading' = Awaited(a.calls, parent)
    /\ UNCHANGED <<now, searchVars, shelfVars, hardcoverToken, listPromises, driven, cameraVars, itunesVars,
                   written, matchVars, ticks, budget, loaded, requested, merged>>

\* ResolveSection with one catch around the parallel load: a section that
\* fails empties the three sections
ResolveSection_SharedCatch(i, r, quotaOk) ==
    /\ i \in DOMAIN calls
    /\ calls[i].fn \in {Sections[f].fn : f \in DOMAIN Sections}
    /\ LET field == calls[i].arg
           stores == r.ok /\ ~r.data.error
           books == IF stores THEN BooksOrEmpty(r.data) ELSE <<>>
       IN /\ hardcoverRecentReleases' =
                IF field = "hardcoverRecentReleases" THEN books
                ELSE IF stores THEN hardcoverRecentReleases ELSE <<>>
          /\ hardcoverTrending' =
                IF field = "hardcoverTrending" THEN books
                ELSE IF stores THEN hardcoverTrending ELSE <<>>
          /\ hardcoverTrendingMonth' =
                IF field = "hardcoverTrendingMonth" THEN books
                ELSE IF stores THEN hardcoverTrendingMonth ELSE <<>>
          /\ storage' = IF stores
                        THEN FolioCache_set(storage, now, calls[i].cacheKey, r.data,
                                            Sections[field].ttl, quotaOk)
                        ELSE storage
          /\ loaded' = Settled(loaded, calls[i].cacheKey, now, r, quotaOk)
    /\ calls' = RemoveAt(calls, i)
    /\ hardcoverLoading' = IF Awaited(calls', calls[i].parent) THEN hardcoverLoading ELSE FALSE
    /\ UNCHANGED <<now, searchVars, shelfVars, hardcoverToken, loadingHardcoverLists,
                   hardcoverSections, listPromises, driven, cameraVars, itunesVars, written, matchVars, ticks,
                   budget, issued, requested, merged>>

\* The fetch of the suspended section loader i settles with r.
ResolveSection(i, r, quotaOk) ==
    /\ i \in DOMAIN calls
    /\ calls[i].fn \in {Sections[f].fn : f \in DOMAIN Sections}
    /\ LET field == calls[i].arg
           books == IF r.ok /\ ~r.data.error THEN BooksOrEmpty(r.data) ELSE <<>>
           stores == r.ok /\ ~r.data.error
       IN /\ hardcoverRecentReleases' =
                IF field = "hardcoverRecentReleases" THEN books ELSE hardcoverRecentReleases
          /\ hardcoverTrending' =
                IF field = "hardcoverTrending" THEN books ELSE hardcoverTrending
          /\ hardcoverTrendingMonth' =
                IF field = "hardcoverTrendingMonth" THEN books ELSE hardcoverTrendingMonth
          /\ storage' = IF stores
                        THEN FolioCache_set(storage, now, calls[i].cacheKey, r.data,
                                            Sections[field].ttl, quotaOk)
                        ELSE storage
          /\ loaded' = Settled(loaded, calls[i].cacheKey, now, r, quotaOk)
    /\ calls' = RemoveAt(calls, i)
    /\ hardcoverLoading' = IF Awaited(calls', calls[i].parent) THEN hardcoverLoading ELSE FALSE
    /\ UNCHANGED <<now, searchVars, shelfVars, hardcoverToken, loadingHardcoverLists,
                   hardcoverSections, listPromises, driven, cameraVars, itunesVars, written, matchVars, ticks, budget, issued,
                   requested, merged>>

\* The promise of one loadHardcoverList(listId) call, as loadHardcoverLists
\* holds it in listPromises: pending, or fulfilled with { id, books }
\* (name and description are display text and are left out).
ListPending(listId) == [done |-> FALSE, id |-> listId, books |-> <<>>]

ListResult(listId, books) == [done |-> TRUE, id |-> listId, books |-> books]

ListCacheKey(listId) == "hardcover_list_" \o listId \o "_20"

\* loadHardcoverList(listId) up to its await: a cache hit fulfils the promise,
\* a miss suspends the call at its fetch.  a.promises is the array that
\* selectedLists.map(...) is building.
loadHardcoverList(a, listId, parent) ==
    LET cacheKey == ListCacheKey(listId)
        cached == FolioCache_get(a.storage, now, cacheKey)
    IN IF Truthy(cached.data)
       THEN [a EXCEPT !.storage = cached.storage,
                      !.promises = Append(@, ListResult(listId, BooksOrEmpty(cached.data)))]
       ELSE [a EXCEPT !.storage = cached.storage,
                      !.calls = Suspend(@, Call("loadHardcoverList", "home", cacheKey, listId,
                                                0, 0, parent, Len(a.promises) + 1)),
                      !.issued = @ + 1,
                      !.promises = Append(@, ListPending(listId))]

\* selectedLists.map(list => this.loadHardcoverList(list.id)), from the k-th list on
RECURSIVE MapLists(_, _, _, _)
MapLists(a, selectedLists, k, parent) ==
    IF k > Len(selectedLists) THEN a
    ELSE MapLists(loadHardcoverList(a, selectedLists[k], parent), selectedLists, k + 1, parent)

AllDone(promises) == \A k \in DOMAIN promises : promises[k].done

\* results.filter(result => result.books && result.books.length > 0)
validSections(promises) ==
    LET results == [k \in DOMAIN promises |->
                        [id |-> promises[k].id, books |-> promises[k].books]]
    IN SelectSeq(results, LAMBDA result : Len(result.books) > 0)

\* The fetch of the lists index, awaited by the suspended loadHardcoverLists
\* call i, settles with r.
ResolveLists(i, r) ==
    /\ i \in DOMAIN calls
    /\ calls[i].fn = "loadHardcoverLists"
    /\ IF ~r.ok \/ r.data.error \/ Len(r.data.lists) = 0
       THEN /\ hardcoverSections' = <<>>
            /\ loadingHardcoverLists' = FALSE
            /\ calls' = RemoveAt(calls, i)
            /\ UNCHANGED <<storage, issued, listPromises>>
       ELSE LET selectedLists == slice(r.data.lists, 0, 3)
                a == MapLists([storage |-> storage, calls |-> RemoveAt(calls, i),
                               issued |-> issued, promises |-> <<>>],
                              selectedLists, 1, calls[i].parent)
            IN /\ a.issued <= MaxHomeCalls
               /\ storage' = a.storage
               /\ calls' = a.calls
               /\ issued' = a.issued
               /\ IF AllDone(a.promises)
                  THEN /\ hardcoverSections' = validSections(a.promises)
                       /\ loadingHardcoverLists' = FALSE
                       /\ listPromises' = <<>>
                  ELSE /\ listPromises' = a.promises
                       /\ UNCHANGED <<hardcoverSections, loadingHardcoverLists>>
    /\ hardcoverLoading' = IF Awaited(calls', calls[i].parent) THEN hardcoverLoading ELSE FALSE
    /\ UNCHANGED <<now, searchVars, shelfVars, hardcoverToken, hardcoverRecentReleases,
                   hardcoverTrending, hardcoverTrendingMonth, driven, cameraVars, itunesVars, written, matchVars, ticks, budget,
                   loaded, requested, merged>>

\* The fetch of the suspended loadHardcoverList call i settles with r.
ResolveList(i, r, quotaOk) ==
    /\ i \in DOMAIN calls
    /\ calls[i].fn = "loadHardcoverList"
    /\ LET stores == r.ok /\ ~r.data.error
           books == IF stores THEN BooksOrEmpty(r.data) ELSE <<>>
           promises == [listPromises EXCEPT ![calls[i].slot] = ListResult(calls[i].arg, books)]
       IN /\ storage' = IF stores
                        THEN FolioCache_set(storage, now, calls[i].cacheKey, r.data,
                                            TTL.HARDCOVER_LIST, quotaOk)
                        ELSE storage
          /\ loaded' = Settled(loaded, calls[i].cacheKey, now, r, quotaOk)
          /\ IF AllDone(promises)
             THEN /\ hardcoverSections' = validSections(promises)
                  /\ loadingHardcoverLists' = FALSE
                  /\ listPromises' = <<>>
             ELSE /\ listPromises' = promises
                  /\ UNCHANGED <<hardcoverSections, loadingHardcoverLists>>
    /\ calls' = RemoveAt(calls, i)
    /\ hardcoverLoading' = IF Awaited(calls', calls[i].parent) THEN hardcoverLoading ELSE FALSE
    /\ UNCHANGED <<now, searchVars, shelfVars, hardcoverToken, hardcoverRecentReleases,
                   hardcoverTrending, hardcoverTrendingMonth, driven, cameraVars, itunesVars, written, matchVars, ticks, budget,
                   issued, requested, merged>>

(***************************************************************************)
(* Specification                                                           *)
(***************************************************************************)
\* Time passes between two handlers.  A fetch settles well within one period
\* of the clock, so the clock advances while no fetch is pending.
Tick ==
    /\ ticks < MaxTicks
    /\ calls = <<>>
    /\ now' = now + TickStep
    /\ ticks' = ticks + 1
    /\ UNCHANGED <<storage, calls, searchVars, shelfVars, homeVars, driven, cameraVars, itunesVars, written,
                   matchVars, budget, issued, loaded, requested, merged>>

InitWith(b, ds) ==
    /\ now = 0
    /\ storage = <<>>
    /\ calls = <<>>
    /\ searchQuery = ""
    /\ searchiTunesResults = <<>>
    /\ searchiTunesPage = 0
    /\ searchiTunesHasMore = FALSE
    /\ loadingSearchiTunes = FALSE
    /\ sortedBooks = <<>>
    /\ showBookshelf = FALSE
    /\ bookshelfBooks = <<>>
    /\ bookshelfType = ""
    /\ bookshelfHasMore = FALSE
    /\ loadingMoreBookshelf = FALSE
    /\ hardcoverToken = FALSE
    /\ hardcoverLoading = FALSE
    /\ loadingHardcoverLists = FALSE
    /\ hardcoverTrending = <<>>
    /\ hardcoverTrendingMonth = <<>>
    /\ hardcoverRecentReleases = <<>>
    /\ hardcoverSections = <<>>
    /\ listPromises = <<>>
    /\ driven \in ds
    /\ ticks = 0
    /\ budget = b
    /\ issued = 0
    /\ loaded = <<>>
    /\ written = <<>>
    /\ libraryBooks = <<>>
    /\ requestedBooks = <<>>
    /\ given = <<>>
    /\ annotated = [threw |-> FALSE, items |-> <<>>]
    /\ probed = [fn |-> "", args |-> <<>>, result |-> <<>>]
    /\ pass = <<>>
    /\ serverRequests = <<>>
    /\ selectedBookiTunesMatch = <<>>
    /\ itunesMetadataResults = <<>>
    /\ searchingItunesMetadata = FALSE
    /\ showCameraCapture = FALSE
    /\ cameraState = "initializing"
    /\ cameraStream = 0
    /\ cameraRequestId = 0
    /\ capturedImageSrc = ""
    /\ showRequests = FALSE
    /\ currentView = "library"
    /\ liveStreams = {}
    /\ requested = [search |-> <<>>, bookshelf |-> <<>>]
    /\ merged = [search |-> <<>>, bookshelf |-> <<>>]

Next ==
    \/ \E q \in Queries : searchBooks(q)
    \/ loadMoreiTunesSearch
    \/ \E i \in DOMAIN calls, quotaOk \in BOOLEAN :
          \E r \in Responses(calls[i].arg, pageSize) : ResolveSearch(i, r, quotaOk)
    \/ \E type \in BookshelfTypes : openBookshelf(type)
    \/ loadMoreBookshelf
    \/ closeBookshelf
    \/ \E i \in DOMAIN calls, quotaOk \in BOOLEAN :
          \E r \in Responses(calls[i].arg, limit) : ResolveOpenBookshelf(i, r, quotaOk)
    \/ \E i \in DOMAIN calls :
          \E r \in Responses(calls[i].arg, limit) : ResolveMoreBookshelf(i, r)
    \/ \E token \in BOOLEAN : loadConfig(token)
    \/ loadHardcoverData
    \/ \E i \in DOMAIN calls, quotaOk \in BOOLEAN :
          \E r \in HomeResponses(calls[i].arg) : ResolveSection(i, r, quotaOk)
    \/ \E i \in DOMAIN calls :
          \E r \in ListsResponses : ResolveLists(i, r)
    \/ \E i \in DOMAIN calls, quotaOk \in BOOLEAN :
          \E r \in HomeResponses(calls[i].arg) : ResolveList(i, r, quotaOk)
    \/ Tick

Init == InitWith(MaxCalls, Views)

InitDeep == InitWith(MaxDeepCalls, Views)

Spec == Init /\ [][Next]_vars

SpecDeep == InitDeep /\ [][Next]_vars

(***************************************************************************)
(* FolioCache used directly: a caller sets and gets arbitrary keys while   *)
(* the clock advances a millisecond at a time.                             *)
(***************************************************************************)
CacheKeys == {"a", "b"}

CacheTtls == {0, 1, 2}

CachePayloads == {Payload(FALSE, TRUE, <<>>), Payload(FALSE, TRUE, <<Book(1, "a")>>)}

\* A FolioCache.set(key, data, ttl) call made at time t, as `written` keeps
\* it: expiry = t + ttl; ok = FALSE when sessionStorage refused the write;
\* over: the key had an item with another payload when the call was made.
SetCall(st, t, key, data, ttl, quotaOk) ==
    [key |-> key, data |-> data, expiry |-> t + ttl, ok |-> quotaOk,
     over |-> ItemName(key) \in DOMAIN st /\ st[ItemName(key)].data # data]

\* FolioCache.set(key, data, ttl)
CacheSet(key, data, ttl, quotaOk) ==
    /\ driven = "cache"
    /\ storage' = FolioCache_set(storage, now, key, data, ttl, quotaOk)
    /\ written' = SetCall(storage, now, key, data, ttl, quotaOk)
    /\ UNCHANGED <<now, calls, searchVars, shelfVars, homeVars, driven, cameraVars, itunesVars, matchVars, ticks,
                   budget, issued, loaded, requested, merged>>

\* FolioCache.clear()
CacheClear ==
    /\ driven = "cache"
    /\ storage' = FolioCache_clear(storage)
    /\ UNCHANGED <<now, calls, searchVars, shelfVars, homeVars, driven, cameraVars, itunesVars, written, matchVars,
                   ticks, budget, issued, loaded, requested, merged>>

\* FolioCache.get(key): an expired item is removed
CacheGet(key) ==
    /\ driven = "cache"
    /\ storage' = FolioCache_get(storage, now, key).storage
    /\ UNCHANGED <<now, calls, searchVars, shelfVars, homeVars, driven, cameraVars, itunesVars, written, matchVars, ticks, budget,
                   issued, loaded, requested, merged>>

\* a millisecond passes
CacheTick ==
    /\ driven = "cache"
    /\ now < MaxCacheTime
    /\ now' = now + 1
    /\ UNCHANGED <<storage, calls, searchVars, shelfVars, homeVars, driven, cameraVars, itunesVars, written, matchVars, ticks, budget,
                   issued, loaded, requested, merged>>

NextCache ==
    \/ \E key \in CacheKeys, data \in CachePayloads, ttl \in CacheTtls, quotaOk \in BOOLEAN :
          CacheSet(key, data, ttl, quotaOk)
    \/ \E key \in CacheKeys : CacheGet(key)
    \/ CacheClear
    \/ CacheTick

InitCache == InitWith(0, {"cache"})

SpecCache == InitCache /\ [][NextCache]_vars

(***************************************************************************)
(* Reconciliation of catalog items with the local library:                 *)
(* matchWithLibrary, findLibraryMatch, normalizeForMatching and            *)
(* calculateSimilarity.                                                    *)
(***************************************************************************)
\* A JavaScript value found in a title or author field.  kind is one of
\* "undefined", "null", "string" (s), "number" (n), "array" (items, strings),
\* "object".
JsValue(kind, s, n, items) == [kind |-> kind, s |-> s, n |-> n, items |-> items]

Undefined == JsValue("undefined", "", 0, <<>>)

JsNull == JsValue("null", "", 0, <<>>)

Str(s) == JsValue("string", s, 0, <<>>)

Num(n) == JsValue("number", "", n, <<>>)

Arr(items) == JsValue("array", "", 0, items)

Obj == JsValue("object", "", 0, <<>>)

\* !v
Falsy(v) ==
    \/ v.kind \in {"undefined", "null"}
    \/ v.kind = "string" /\ v.s = ""
    \/ v.kind = "number" /\ v.n = 0

Lower == "abcdefghijklmnopqrstuvwxyz"

Upper == "ABCDEFGHIJKLMNOPQRSTUVWXYZ"

CharAt(s, i) == SubSeq(s, i, i)

Chars(s) == {CharAt(s, i) : i \in 1..Len(s)}

\* toLowerCase on a capital letter
LowerOf == [c \in Chars(Upper) |-> CharAt(Lower, CHOOSE k \in 1..Len(Upper) : CharAt(Upper, k) = c)]

\* toLowerCase on one character
LowerChar(c) == IF c \in DOMAIN LowerOf THEN LowerOf[c] ELSE c

\* String.prototype.toLowerCase
RECURSIVE toLowerCase(_)
toLowerCase(s) ==
    IF Len(s) = 0 THEN ""
    ELSE LowerChar(CharAt(s, 1)) \o toLowerCase(SubSeq(s, 2, Len(s)))

\* the characters that /[^a-z0-9\s]/ leaves
KeptChars == Chars(Lower) \cup Chars("0123456789") \cup Whitespace

Kept(c) == c \in KeptChars

\* .replace(/[^a-z0-9\s]/g, '')
RECURSIVE StripOthers(_)
StripOthers(s) ==
    IF Len(s) = 0 THEN ""
    ELSE (IF Kept(CharAt(s, 1)) THEN CharAt(s, 1) ELSE "")
         \o StripOthers(SubSeq(s, 2, Len(s)))

\* .replace(/\s+/g, ' ')
RECURSIVE CollapseSpaces(_)
CollapseSpaces(s) ==
    IF Len(s) = 0 THEN s
    ELSE IF CharAt(s, 1) \notin Whitespace
         THEN CharAt(s, 1) \o CollapseSpaces(SubSeq(s, 2, Len(s)))
         ELSE IF Len(s) >= 2 /\ CharAt(s, 2) \in Whitespace
              THEN CollapseSpaces(SubSeq(s, 2, Len(s)))
              ELSE " " \o CollapseSpaces(SubSeq(s, 2, Len(s)))

\* String.prototype.split(sep), sep a single character
RECURSIVE split(_, _)
split(s, sep) ==
    IF sep \notin Chars(s) THEN <<s>>
    ELSE LET i == CHOOSE k \in 1..Len(s) :
                      CharAt(s, k) = sep /\ \A j \in 1..(k - 1) : CharAt(s, j) # sep
         IN <<SubSeq(s, 1, i - 1)>> \o split(SubSeq(s, i + 1, Len(s)), sep)

\* Array.prototype.join(sep) on an array of strings
RECURSIVE join(_, _)
join(items, sep) ==
    IF Len(items) = 0 THEN ""
    ELSE IF Len(items) = 1 THEN items[1]
    ELSE items[1] \o sep \o join(Tail(items), sep)

\* String.prototype.includes
includes(s, t) ==
    \E i \in 1..(Len(s) - Len(t) + 1) : SubSeq(s, i, i + Len(t) - 1) = t

\* What a call returns: threw = TRUE when it ended in a TypeError.
Returned(s) == [threw |-> FALSE, s |-> s]

Thrown == [threw |-> TRUE, s |-> ""]

\* normalizeForMatching without the trim() that ends it
normalizeForMatching_NoFinalTrim(str) ==
    IF Falsy(str) THEN Returned("")
    ELSE IF str.kind = "string"
    THEN Returned(CollapseSpaces(StripOthers(toLowerCase(trim(split(str.s, ":")[1])))))
    ELSE Thrown

\* normalizeForMatching(str): a falsy value gives ''; a string is cut at its
\* first colon, trimmed, lower-cased, stripped of what is not a letter, a
\* digit or a space, its spaces collapsed, and trimmed; any other value has
\* no split method, and the call throws.
normalizeForMatching(str) ==
    IF Falsy(str) THEN Returned("")
    ELSE IF str.kind = "string"
    THEN Returned(trim(CollapseSpaces(StripOthers(toLowerCase(trim(split(str.s, ":")[1]))))))
    ELSE Thrown

\* A similarity, as the quotient n / d
Frac(n, d) == [n |-> n, d |-> d]

\* f > n / d
Greater(f, n, d) == f.n * d > n * f.d

\* f >= n / d
AtLeast(f, n, d) == f.n * d >= n * f.d

Range(seq) == {seq[i] : i \in DOMAIN seq}

\* calculateSimilarity whose fallback only asks whether str1 contains str2
calculateSimilarity_OneWay(str1, str2) ==
    IF str1 = "" \/ str2 = "" THEN Frac(0, 1)
    ELSE IF str1 = str2 THEN Frac(1, 1)
    ELSE LET words1 == {w \in Range(split(str1, " ")) : Len(w) > 2}
             words2 == {w \in Range(split(str2, " ")) : Len(w) > 2}
         IN IF words1 = {} \/ words2 = {}
            THEN IF includes(str1, str2) THEN Frac(8, 10) ELSE Frac(0, 1)
            ELSE Frac(Cardinality(words1 \cap words2), Cardinality(words1 \cup words2))

\* calculateSimilarity that keeps the words of two characters
calculateSimilarity_ShortWords(str1, str2) ==
    IF str1 = "" \/ str2 = "" THEN Frac(0, 1)
    ELSE IF str1 = str2 THEN Frac(1, 1)
    ELSE LET words1 == {w \in Range(split(str1, " ")) : Len(w) >= 2}
             words2 == {w \in Range(split(str2, " ")) : Len(w) >= 2}
         IN IF words1 = {} \/ words2 = {}
            THEN IF includes(str1, str2) \/ includes(str2, str1)
                 THEN Frac(8, 10)
                 ELSE Frac(0, 1)
            ELSE Frac(Cardinality(words1 \cap words2), Cardinality(words1 \cup words2))

\* calculateSimilarity that tests equality before emptiness
calculateSimilarity_EqualFirst(str1, str2) ==
    IF str1 = str2 THEN Frac(1, 1)
    ELSE IF str1 = "" \/ str2 = "" THEN Frac(0, 1)
    ELSE LET words1 == {w \in Range(split(str1, " ")) : Len(w) > 2}
             words2 == {w \in Range(split(str2, " ")) : Len(w) > 2}
         IN IF words1 = {} \/ words2 = {}
            THEN IF includes(str1, str2) \/ includes(str2, str1)
                 THEN Frac(8, 10)
                 ELSE Frac(0, 1)
            ELSE Frac(Cardinality(words1 \cap words2), Cardinality(words1 \cup words2))

\* calculateSimilarity(str1, str2), on strings
calculateSimilarity(str1, str2) ==
    IF str1 = "" \/ str2 = "" THEN Frac(0, 1)
    ELSE IF str1 = str2 THEN Frac(1, 1)
    ELSE LET words1 == {w \in Range(split(str1, " ")) : Len(w) > 2}
             words2 == {w \in Range(split(str2, " ")) : Len(w) > 2}
         IN IF words1 = {} \/ words2 = {}
            THEN IF includes(str1, str2) \/ includes(str2, str1)
                 THEN Frac(8, 10)
                 ELSE Frac(0, 1)
            ELSE Frac(Cardinality(words1 \cap words2), Cardinality(words1 \cup words2))

\* findLibraryMatch's two tests with the thresholds included
isMatch_AtLeast(titleSimilarity, authorSimilarity) ==
    \/ AtLeast(titleSimilarity, 85, 100) /\ AtLeast(authorSimilarity, 5, 10)
    \/ AtLeast(titleSimilarity, 7, 10) /\ AtLeast(authorSimilarity, 7, 10)

\* findLibraryMatch, the two tests that return the book
isMatch(titleSimilarity, authorSimilarity) ==
    IF Greater(titleSimilarity, 85, 100) /\ Greater(authorSimilarity, 5, 10)
    THEN TRUE
    ELSE IF Greater(titleSimilarity, 7, 10) /\ Greater(authorSimilarity, 7, 10)
    THEN TRUE
    ELSE FALSE

\* What findLibraryMatch returns: match = <<book>>, or <<>> for null.
Found(book) == [threw |-> FALSE, match |-> <<book>>]

NotFound == [threw |-> FALSE, match |-> <<>>]

FindThrown == [threw |-> TRUE, match |-> <<>>]

\* findLibraryMatch, one turn of `for (const book of this.books)`: the
\* library record lib[k] against the normalized title and author
LibraryPair(hcTitle, hcAuthor, book) ==
    LET libTitle == normalizeForMatching(book.title)
        libAuthor == normalizeForMatching(
                        IF book.authors.kind = "array"
                        THEN Str(join(book.authors.items, " "))
                        ELSE book.authors)
    IN IF libTitle.threw \/ libAuthor.threw
       THEN [threw |-> TRUE, match |-> FALSE]
       ELSE [threw |-> FALSE,
             match |-> isMatch(calculateSimilarity(hcTitle, libTitle.s),
                               calculateSimilarity(hcAuthor, libAuthor.s))]

\* the loop of findLibraryMatch that keeps the last record that matches
RECURSIVE ScanLibrary_KeepsLast(_, _, _, _)
ScanLibrary_KeepsLast(hcTitle, hcAuthor, lib, k) ==
    IF k > Len(lib) THEN NotFound
    ELSE LET pair == LibraryPair(hcTitle, hcAuthor, lib[k])
             rest == ScanLibrary_KeepsLast(hcTitle, hcAuthor, lib, k + 1)
         IN IF pair.threw THEN FindThrown
            ELSE IF rest.threw \/ rest.match # <<>> THEN rest
            ELSE IF pair.match THEN Found(lib[k])
            ELSE NotFound

\* the loop of findLibraryMatch, from the k-th record of the library on
RECURSIVE ScanLibrary(_, _, _, _)
ScanLibrary(hcTitle, hcAuthor, lib, k) ==
    IF k > Len(lib) THEN NotFound
    ELSE LET pair == LibraryPair(hcTitle, hcAuthor, lib[k])
         IN IF pair.threw THEN FindThrown
            ELSE IF pair.match THEN Found(lib[k])
            ELSE ScanLibrary(hcTitle, hcAuthor, lib, k + 1)

\* findLibraryMatch(hardcoverBook) with this.books = lib
findLibraryMatch(hardcoverBook, lib) ==
    LET hcTitle == normalizeForMatching(hardcoverBook.title)
        hcAuthor == normalizeForMatching(hardcoverBook.author)
    IN IF hcTitle.threw \/ hcAuthor.threw THEN FindThrown
       ELSE ScanLibrary(hcTitle.s, hcAuthor.s, lib, 1)

\* What matchWithLibrary returns
Annotated(items) == [threw |-> FALSE, items |-> items]

MatchThrown == [threw |-> TRUE, items |-> <<>>]

\* matchWithLibrary that falls back on the id of the catalog item
matchWithLibrary_OwnId(hardcoverBooks, lib, reqs) ==
    LET found == [i \in DOMAIN hardcoverBooks |-> findLibraryMatch(hardcoverBooks[i], lib)]
    IN IF \E i \in DOMAIN found : found[i].threw THEN MatchThrown
       ELSE Annotated(
               [i \in DOMAIN hardcoverBooks |->
                   [id            |-> hardcoverBooks[i].id,
                    title         |-> hardcoverBooks[i].title,
                    author        |-> hardcoverBooks[i].author,
                    inLibrary     |-> found[i].match # <<>>,
                    libraryBookId |-> IF found[i].match # <<>>
                                      THEN <<found[i].match[1].id>>
                                      ELSE <<hardcoverBooks[i].id>>,
                    requested     |-> \E r \in DOMAIN reqs : reqs[r].id = hardcoverBooks[i].id]])

\* matchWithLibrary(hardcoverBooks) with this.books = lib and
\* this.requestedBooks = reqs.  libraryBookId is <<id>>, or <<>> for the
\* undefined that `libraryMatch?.id` gives without a match.
matchWithLibrary(hardcoverBooks, lib, reqs) ==
    LET found == [i \in DOMAIN hardcoverBooks |-> findLibraryMatch(hardcoverBooks[i], lib)]
    IN IF \E i \in DOMAIN found : found[i].threw THEN MatchThrown
       ELSE Annotated(
               [i \in DOMAIN hardcoverBooks |->
                   [id            |-> hardcoverBooks[i].id,
                    title         |-> hardcoverBooks[i].title,
                    author        |-> hardcoverBooks[i].author,
                    inLibrary     |-> found[i].match # <<>>,
                    libraryBookId |-> IF found[i].match # <<>>
                                      THEN <<found[i].match[1].id>>
                                      ELSE <<>>,
                    requested     |-> \E r \in DOMAIN reqs : reqs[r].id = hardcoverBooks[i].id]])

\* A record of the local library and an item of a catalog
LibraryRecord(id, title, authors) == [id |-> id, title |-> title, authors |-> authors]

CatalogItem(id, title, author) == [id |-> id, title |-> title, author |-> author]

\* records the library may hold in one run
MaxLibrary == 2

\* The records /api/books may return: ids are the keys of the Calibre
\* database; a title or an author may be of any JSON type.
LibraryRecords ==
    { LibraryRecord(1, Str("It 2"), Str("King")),
      LibraryRecord(2, Str("It"), Str("King")),
      LibraryRecord(3, Str("DUNE"), Arr(<<"Frank", "Herbert">>)),
      LibraryRecord(4, Str("Dune"), Str("Frank")),
      LibraryRecord(5, Num(1984), Str("Orwell")),
      LibraryRecord(6, Str("Emma"), JsNull),
      LibraryRecord(7, Str("!?"), Arr(<<>>)) }

\* The items a catalog may return
CatalogItems ==
    { CatalogItem(101, Str("It"), Str("King")),
      CatalogItem(102, Str("Dune: Messiah"), Str("Frank Herbert")),
      CatalogItem(103, Str("Emma"), Undefined),
      CatalogItem(104, Num(1984), Str("Orwell")),
      CatalogItem(105, Str("Dune"), Arr(<<"Frank", "Herbert">>)),
      CatalogItem(106, Str(": Messiah"), Str("")) }

\* the sequences of at most n distinct elements of S
DistinctSeqs(S, n) ==
    {s \in UNION {[1..k -> S] : k \in 0..n} : \A i, j \in DOMAIN s : i # j => s[i] # s[j]}

Libraries == DistinctSeqs(LibraryRecords, MaxLibrary)

\* The books of a catalog response: no item, one item, or a batch of two in
\* which one item has a title that is not a string
CatalogLists ==
    DistinctSeqs(CatalogItems, 1)
    \cup { <<CatalogItem(101, Str("It"), Str("King")),
             CatalogItem(102, Str("Dune: Messiah"), Str("Frank Herbert"))>>,
           <<CatalogItem(101, Str("It"), Str("King")),
             CatalogItem(104, Num(1984), Str("Orwell"))>>,
           <<CatalogItem(104, Num(1984), Str("Orwell")),
             CatalogItem(102, Str("Dune: Messiah"), Str("Frank Herbert"))>> }

RequestLists == {<<>>, <<[id |-> 101]>>}

\* a handler that would run while matchWithLibrary is on the stack
Idle_Always == TRUE

\* No matchWithLibrary call is running.  The call contains no await: the
\* browser starts no other handler and resumes no other call before
\* hardcoverBooks.map has returned.
Idle == pass = <<>>

\* loadBooks(500, 0, true) completes with newBooks (<<>> also when the fetch
\* fails); sortBooks() by 'recent' keeps the order of records without a timestamp
loadBooks(newBooks) ==
    /\ driven \in {"match", "requests"}
    /\ Idle
    /\ libraryBooks' = newBooks
    /\ sortedBooks' = newBooks
    /\ given' = <<>>
    /\ annotated' = Annotated(<<>>)
    /\ UNCHANGED <<now, storage, calls, searchVars, showBookshelf, bookshelfBooks,
                   bookshelfType, bookshelfHasMore, loadingMoreBookshelf, homeVars, driven, cameraVars, itunesVars,
                   written, requestedBooks, probed, pass, serverRequests, ticks, budget,
                   issued, loaded, requested, merged>>

\* loadRequestedBooks() completes with books
loadRequestedBooks(reqs) ==
    /\ driven = "match"
    /\ requestedBooks' = reqs
    /\ given' = <<>>
    /\ annotated' = Annotated(<<>>)
    /\ UNCHANGED <<now, storage, calls, searchVars, shelfVars, homeVars, driven, cameraVars, itunesVars, written,
                   libraryBooks, probed, pass, serverRequests, ticks, budget, issued, loaded,
                   requested, merged>>

\* a loader passes the books of its response to matchWithLibrary
Reconcile(hardcoverBooks) ==
    /\ driven = "match"
    /\ given' = hardcoverBooks
    /\ annotated' = matchWithLibrary(hardcoverBooks, libraryBooks, requestedBooks)
    /\ UNCHANGED <<now, storage, calls, searchVars, shelfVars, homeVars, driven, cameraVars, itunesVars, written,
                   libraryBooks, requestedBooks, probed, pass, serverRequests, ticks,
                   budget, issued, loaded, requested, merged>>

\* the values normalizeForMatching is applied to
ProbeValues ==
    { Undefined, JsNull, Str(""), Str("  "), Str("Dune: Messiah"), Str(" The  Hobbit! "),
      Str("It: a: b"), Num(0), Num(1984), Arr(<<>>), Arr(<<"Frank", "Herbert">>), Obj,
      Str(" Dune ! : Messiah"), Str(": Messiah"), Str("The\tHobbit \t2"), Str("dune messiah") }

\* the normalized strings calculateSimilarity is applied to
ProbeStrings == {"", "it", "it 2", "dune", "dune messiah", "frank herbert", "frank"}

\* the similarities the two tests of findLibraryMatch are applied to
SimilarityGrid == {Frac(n, 20) : n \in 0..20}

Probe(fn, args, result) ==
    /\ driven = "probe"
    /\ probed' = [fn |-> fn, args |-> args, result |-> result]
    /\ UNCHANGED <<now, storage, calls, searchVars, shelfVars, homeVars, driven, cameraVars, itunesVars, written,
                   libraryBooks, requestedBooks, given, annotated, pass, serverRequests,
                   ticks, budget, issued, loaded, requested, merged>>

ProbeNormalize(str) ==
    Probe("normalizeForMatching", <<str>>, normalizeForMatching(str))

ProbeSimilarity(str1, str2) ==
    Probe("calculateSimilarity", <<str1, str2>>, calculateSimilarity(str1, str2))

ProbeIsMatch(titleSimilarity, authorSimilarity) ==
    Probe("isMatch", <<titleSimilarity, authorSimilarity>>,
          isMatch(titleSimilarity, authorSimilarity))

NextMatch ==
    \/ \E newBooks \in Libraries : loadBooks(newBooks)
    \/ \E reqs \in RequestLists : loadRequestedBooks(reqs)
    \/ \E hardcoverBooks \in CatalogLists : Reconcile(hardcoverBooks)
    \/ \E str \in ProbeValues : ProbeNormalize(str)
    \/ \E str1, str2 \in ProbeStrings : ProbeSimilarity(str1, str2)
    \/ \E titleSimilarity, authorSimilarity \in SimilarityGrid :
          ProbeIsMatch(titleSimilarity, authorSimilarity)

InitMatch == InitWith(0, {"match", "probe"})

SpecMatch == InitMatch /\ [][NextMatch]_vars

(***************************************************************************)
(* The view lists and the request list: a loader's continuation annotates  *)
(* the books of its response item by item and shows them; requestBook and  *)
(* cancelRequest change the request list on the server and, when the       *)
(* response arrives, this.requestedBooks and the book they were given.     *)
(***************************************************************************)
\* fetches in one run: of the loaders that show a list, of requestBook and
\* of cancelRequest
MaxViewCalls == 3

\* the view lists a run shows annotated items in
ViewFields == {"hardcoverTrending", "bookshelfBooks"}

ViewList(field) == IF field = "hardcoverTrending" THEN hardcoverTrending ELSE bookshelfBooks

\* the libraries /api/books returns in such a run
ViewLibraries ==
    { <<>>,
      <<LibraryRecord(2, Str("It"), Str("King"))>>,
      <<LibraryRecord(2, Str("It"), Str("King")),
        LibraryRecord(3, Str("DUNE"), Arr(<<"Frank", "Herbert">>))>> }

\* the books of the catalog responses of such a run
ViewBatches ==
    { <<CatalogItem(101, Str("It"), Str("King")),
        CatalogItem(102, Str("Dune: Messiah"), Str("Frank Herbert"))>> }

\* matchWithLibrary, the callback of hardcoverBooks.map on one book
AnnotateItem(book, lib, reqs) ==
    LET libraryMatch == findLibraryMatch(book, lib)
        isRequested == \E r \in DOMAIN reqs : reqs[r].id = book.id
    IN [threw |-> libraryMatch.threw,
        item  |-> [id            |-> book.id,
                   title         |-> book.title,
                   author        |-> book.author,
                   inLibrary     |-> libraryMatch.match # <<>>,
                   libraryBookId |-> IF libraryMatch.match # <<>>
                                     THEN <<libraryMatch.match[1].id>>
                                     ELSE <<>>,
                   requested     |-> isRequested]]

\* A call of requestBook or cancelRequest loses the book it was given when
\* the list the book was in is replaced: the object is no longer shown.
Detach(cs, field) ==
    [i \in DOMAIN cs |->
        IF cs[i].arg.field = field THEN [cs[i] EXCEPT !.slot = 0] ELSE cs[i]]

\* this[field] = this.matchWithLibrary(data.books), up to the first turn of
\* the map: the continuation of a loader whose response holds hardcoverBooks
BeginMatch(field, hardcoverBooks) ==
    /\ driven = "requests"
    /\ Idle
    /\ issued < budget
    /\ issued' = issued + 1
    /\ pass' = [field |-> field, items |-> hardcoverBooks, out |-> <<>>,
                books |-> libraryBooks, requests |-> requestedBooks]
    /\ UNCHANGED <<now, storage, calls, searchVars, shelfVars, homeVars, driven, cameraVars, itunesVars, written,
                   libraryBooks, requestedBooks, given, annotated, probed, serverRequests,
                   ticks, budget, loaded, requested, merged>>

\* one turn of hardcoverBooks.map; after the last one the list is assigned
MatchItem ==
    /\ driven = "requests"
    /\ pass # <<>>
    /\ LET k == Len(pass.out) + 1
           a == AnnotateItem(pass.items[k], libraryBooks, requestedBooks)
           out == Append(pass.out, a.item)
       IN IF a.threw
          THEN /\ pass' = <<>>
               /\ UNCHANGED <<calls, hardcoverTrending, bookshelfBooks>>
          ELSE IF k < Len(pass.items)
          THEN /\ pass' = [pass EXCEPT !.out = out]
               /\ UNCHANGED <<calls, hardcoverTrending, bookshelfBooks>>
          ELSE /\ pass' = <<>>
               /\ hardcoverTrending' =
                     IF pass.field = "hardcoverTrending" THEN out ELSE hardcoverTrending
               /\ bookshelfBooks' =
                     IF pass.field = "bookshelfBooks" THEN out ELSE bookshelfBooks
               /\ calls' = Detach(calls, pass.field)
    /\ UNCHANGED <<now, storage, searchVars, sortedBooks, showBookshelf, bookshelfType,
                   bookshelfHasMore, loadingMoreBookshelf, hardcoverToken, hardcoverLoading,
                   loadingHardcoverLists, hardcoverTrendingMonth, hardcoverRecentReleases,
                   hardcoverSections, listPromises, driven, cameraVars, itunesVars, written, libraryBooks,
                   requestedBooks, given, annotated, probed, serverRequests, ticks, budget,
                   issued, loaded, requested, merged>>

\* bulkDeleteBooks() resumes with data.success: the selected books leave
\* this.books, and sortBooks() follows
bulkDeleteBooks(selectedBookIds) ==
    /\ driven = "requests"
    /\ Idle
    /\ selectedBookIds # {}
    /\ selectedBookIds \subseteq {libraryBooks[k].id : k \in DOMAIN libraryBooks}
    /\ LET kept == SelectSeq(libraryBooks, LAMBDA book : book.id \notin selectedBookIds)
       IN /\ libraryBooks' = kept
          /\ sortedBooks' = kept
    /\ UNCHANGED <<now, storage, calls, searchVars, showBookshelf, bookshelfBooks,
                   bookshelfType, bookshelfHasMore, loadingMoreBookshelf, homeVars, driven, cameraVars, itunesVars,
                   written, requestedBooks, given, annotated, probed, pass, serverRequests,
                   ticks, budget, issued, loaded, requested, merged>>

\* The request list of the server after POST /api/requests with the book
ServerAdd(list, id) ==
    IF \E r \in DOMAIN list : list[r].id = id THEN list ELSE Append(list, [id |-> id])

\* The request list of the server after DELETE /api/requests/{id}
ServerRemove(list, id) == SelectSeq(list, LAMBDA r : r.id # id)

\* requestBook(book) or cancelRequest(book), up to its await: book is the
\* i-th item of a view list; the server answers data.success = ok with its
\* list after the operation
StartRequest(fn, field, i, ok) ==
    /\ driven = "requests"
    /\ Idle
    /\ issued < budget
    /\ i \in DOMAIN ViewList(field)
    /\ LET book == ViewList(field)[i]
           after == IF ~ok THEN serverRequests
                    ELSE IF fn = "requestBook" THEN ServerAdd(serverRequests, book.id)
                    ELSE ServerRemove(serverRequests, book.id)
       IN /\ serverRequests' = after
          /\ calls' = Suspend(calls, Call(fn, "requests", "",
                                          [field |-> field, id |-> book.id, ok |-> ok,
                                           books |-> after], 0, 0, 0, i))
    /\ issued' = issued + 1
    /\ UNCHANGED <<now, storage, searchVars, shelfVars, homeVars, driven, cameraVars, itunesVars, written,
                   libraryBooks, requestedBooks, given, annotated, probed, pass, ticks,
                   budget, loaded, requested, merged>>

requestBook(field, i, ok) == StartRequest("requestBook", field, i, ok)

cancelRequest(field, i, ok) == StartRequest("cancelRequest", field, i, ok)

\* the view list after `book.requested = value` on the book of the call
Marked(list, c, field, value) ==
    IF c.arg.field = field /\ c.slot \in DOMAIN list
    THEN [list EXCEPT ![c.slot].requested = value]
    ELSE list

\* requestBook or cancelRequest resumes with the response
ResolveRequest(i) ==
    /\ driven = "requests"
    /\ Idle
    /\ i \in DOMAIN calls
    /\ LET c == calls[i]
       IN /\ calls' = RemoveAt(calls, i)
          /\ IF c.arg.ok
             THEN /\ requestedBooks' = c.arg.books
                  /\ hardcoverTrending' =
                        Marked(hardcoverTrending, c, "hardcoverTrending", c.fn = "requestBook")
                  /\ bookshelfBooks' =
                        Marked(bookshelfBooks, c, "bookshelfBooks", c.fn = "requestBook")
             ELSE UNCHANGED <<requestedBooks, hardcoverTrending, bookshelfBooks>>
    /\ UNCHANGED <<now, storage, searchVars, sortedBooks, showBookshelf, bookshelfType,
                   bookshelfHasMore, loadingMoreBookshelf, hardcoverToken, hardcoverLoading,
                   loadingHardcoverLists, hardcoverTrendingMonth, hardcoverRecentReleases,
                   hardcoverSections, listPromises, driven, cameraVars, itunesVars, written, libraryBooks, given,
                   annotated, probed, pass, serverRequests, ticks, budget, issued, loaded,
                   requested, merged>>

NextRequests ==
    \/ \E newBooks \in ViewLibraries : loadBooks(newBooks)
    \/ \E field \in ViewFields, hardcoverBooks \in ViewBatches : BeginMatch(field, hardcoverBooks)
    \/ MatchItem
    \/ \E selectedBookIds \in SUBSET {2, 3} : bulkDeleteBooks(selectedBookIds)
    \/ \E field \in ViewFields, i \in 1..2, ok \in BOOLEAN : requestBook(field, i, ok)
    \/ \E field \in ViewFields, i \in 1..2, ok \in BOOLEAN : cancelRequest(field, i, ok)
    \/ \E i \in DOMAIN calls : ResolveRequest(i)

InitRequests == InitWith(MaxViewCalls, {"requests"})

SpecRequests == InitRequests /\ [][NextRequests]_vars

(***************************************************************************)
(* iTunes lookups for a book of the library: checkiTunesMatch when a book  *)
(* is opened, searchItunesForMetadata from the edit form.                  *)
(***************************************************************************)
\* formatAuthors(authors) on an array of distinct, trimmed names that hold
\* neither ', ' nor '|': the names joined by ', '
formatAuthors(authors) ==
    IF authors.kind = "array" /\ Len(authors.items) > 0
    THEN join(authors.items, ", ")
    ELSE "Unknown Author"

\* the library books a run opens
OpenedBooks ==
    { LibraryRecord(2, Str("It"), Arr(<<"Stephen King">>)),
      LibraryRecord(3, Str("Dune"), Arr(<<"Frank Herbert", "Brian Herbert">>)) }

\* this.editingBook as the edit form holds it: null (isNull), or a title
\* and the authors typed as one string
EditedBooks ==
    { [isNull |-> TRUE, title |-> "", authors |-> ""],
      [isNull |-> FALSE, title |-> "It", authors |-> "Stephen King, Owen King"],
      [isNull |-> FALSE, title |-> "Emma", authors |-> ""] }

\* what /api/itunes/search may answer: a rejection, an error body, no book,
\* or books
ItunesResponses ==
    { Response(FALSE, Null),
      Response(TRUE, Payload(TRUE, FALSE, <<>>)),
      Response(TRUE, Payload(FALSE, TRUE, <<>>)),
      Response(TRUE, Payload(FALSE, TRUE,
                             <<CatalogItem(201, Str("It"), Str("Stephen King")),
                               CatalogItem(202, Str("Dune Messiah"), Str("Frank Herbert"))>>)) }

\* checkiTunesMatch: the loop over data.books, from the k-th book on; <<>>
\* is the null the field keeps when no book matches or a call throws
RECURSIVE BestItunesMatch(_, _, _, _)
BestItunesMatch(title, firstAuthor, itunesBooks, k) ==
    IF k > Len(itunesBooks) THEN <<>>
    ELSE LET t1 == normalizeForMatching(title)
             t2 == normalizeForMatching(itunesBooks[k].title)
             a1 == normalizeForMatching(Str(firstAuthor))
             a2 == normalizeForMatching(itunesBooks[k].author)
         IN IF t1.threw \/ t2.threw \/ a1.threw \/ a2.threw THEN <<>>
            ELSE IF /\ Greater(calculateSimilarity(t1.s, t2.s), 7, 10)
                    /\ Greater(calculateSimilarity(a1.s, a2.s), 5, 10)
            THEN <<itunesBooks[k]>>
            ELSE BestItunesMatch(title, firstAuthor, itunesBooks, k + 1)

\* checkiTunesMatch from `if (data.books && data.books.length > 0)` on
MatchIn(book, data) ==
    IF data.hasBooks /\ Len(data.books) > 0
    THEN BestItunesMatch(book.title, trim(split(formatAuthors(book.authors), ",")[1]),
                         data.books, 1)
    ELSE <<>>

\* checkiTunesMatch(book) up to its await, or to its end on a cache hit
checkiTunesMatch(book) ==
    /\ driven = "itunes"
    /\ LET firstAuthor == trim(split(formatAuthors(book.authors), ",")[1])
           query == book.title.s \o " " \o firstAuthor
           cacheKey == "itunes_match_" \o query
           cached == FolioCache_get(storage, now, cacheKey)
       IN /\ storage' = cached.storage
          /\ IF Truthy(cached.data)
             THEN /\ selectedBookiTunesMatch' = MatchIn(book, cached.data)
                  /\ UNCHANGED <<calls, issued>>
             ELSE /\ issued < budget
                  /\ selectedBookiTunesMatch' = <<>>
                  /\ calls' = Suspend(calls, Call("checkiTunesMatch", "itunes", cacheKey,
                                                  book, 0, 0, 0, 0))
                  /\ issued' = issued + 1
    /\ UNCHANGED <<now, searchVars, shelfVars, homeVars, driven, cameraVars, written, matchVars,
                   itunesMetadataResults, searchingItunesMetadata, ticks, budget, loaded,
                   requested, merged>>

\* checkiTunesMatch resumes with the response r
ResolveMatch(i, r, quotaOk) ==
    /\ i \in DOMAIN calls
    /\ calls[i].fn = "checkiTunesMatch"
    /\ IF ~r.ok
       THEN UNCHANGED <<storage, selectedBookiTunesMatch>>
       ELSE /\ storage' = FolioCache_set(storage, now, calls[i].cacheKey, r.data,
                                         TTL.ITUNES_SEARCH, quotaOk)
            /\ selectedBookiTunesMatch' =
                  IF MatchIn(calls[i].arg, r.data) # <<>>
                  THEN MatchIn(calls[i].arg, r.data)
                  ELSE selectedBookiTunesMatch
    /\ calls' = RemoveAt(calls, i)
    /\ loaded' = Settled(loaded, calls[i].cacheKey, now, r, quotaOk)
    /\ UNCHANGED <<now, searchVars, shelfVars, homeVars, driven, cameraVars, written, matchVars,
                   itunesMetadataResults, searchingItunesMetadata, ticks, budget, issued,
                   requested, merged>>

\* searchItunesForMetadata from `if (data.books && data.books.length > 0)` on
MetadataIn(results, data) ==
    IF data.hasBooks /\ Len(data.books) > 0 THEN slice(data.books, 0, 3) ELSE results

\* searchItunesForMetadata() with this.editingBook = editingBook, up to its
\* await, or to its end on a cache hit
searchItunesForMetadata(editingBook) ==
    /\ driven = "itunes"
    /\ IF editingBook.isNull
       THEN UNCHANGED <<storage, calls, issued, itunesMetadataResults,
                        searchingItunesMetadata>>
       ELSE LET firstAuthor == trim(split(editingBook.authors, ",")[1])
                query == editingBook.title
                            \o (IF firstAuthor # "" THEN " " \o firstAuthor ELSE "")
                cacheKey == "itunes_metadata_" \o query
                cached == FolioCache_get(storage, now, cacheKey)
            IN /\ storage' = cached.storage
               /\ IF Truthy(cached.data)
                  THEN /\ itunesMetadataResults' = MetadataIn(<<>>, cached.data)
                       /\ searchingItunesMetadata' = FALSE
                       /\ UNCHANGED <<calls, issued>>
                  ELSE /\ issued < budget
                       /\ itunesMetadataResults' = <<>>
                       /\ searchingItunesMetadata' = TRUE
                       /\ calls' = Suspend(calls, Call("searchItunesForMetadata", "itunes",
                                                       cacheKey, editingBook, 0, 0, 0, 0))
                       /\ issued' = issued + 1
    /\ UNCHANGED <<now, searchVars, shelfVars, homeVars, driven, cameraVars, written, matchVars,
                   selectedBookiTunesMatch, ticks, budget, loaded, requested, merged>>

\* searchItunesForMetadata resumes with the response r
ResolveMetadata(i, r, quotaOk) ==
    /\ i \in DOMAIN calls
    /\ calls[i].fn = "searchItunesForMetadata"
    /\ IF ~r.ok
       THEN UNCHANGED <<storage, itunesMetadataResults>>
       ELSE /\ storage' = FolioCache_set(storage, now, calls[i].cacheKey, r.data,
                                         TTL.ITUNES_SEARCH, quotaOk)
            /\ itunesMetadataResults' = MetadataIn(itunesMetadataResults, r.data)
    /\ searchingItunesMetadata' = FALSE
    /\ calls' = RemoveAt(calls, i)
    /\ loaded' = Settled(loaded, calls[i].cacheKey, now, r, quotaOk)
    /\ UNCHANGED <<now, searchVars, shelfVars, homeVars, driven, cameraVars, written, matchVars,
                   selectedBookiTunesMatch, ticks, budget, issued, requested, merged>>

NextItunes ==
    \/ \E book \in OpenedBooks : checkiTunesMatch(book)
    \/ \E i \in DOMAIN calls, quotaOk \in BOOLEAN :
          \E r \in ItunesResponses : ResolveMatch(i, r, quotaOk)
    \/ \E editingBook \in EditedBooks : searchItunesForMetadata(editingBook)
    \/ \E i \in DOMAIN calls, quotaOk \in BOOLEAN :
          \E r \in ItunesResponses : ResolveMetadata(i, r, quotaOk)

InitItunes == InitWith(MaxCalls, {"itunes"})

SpecItunes == InitItunes /\ [][NextItunes]_vars

(***************************************************************************)
(* Camera capture: openCameraCapture, closeCameraCapture, capturePhoto,    *)
(* retakePhoto, and the navigation handlers that hide the modal.  A call   *)
(* of openCameraCapture is kept in `calls` with its requestId in `arg` and *)
(* its position in `slot`.                                                 *)
(***************************************************************************)
\* the values cameraRequestId takes in one run
MaxCameraRequests == 3

\* positions of an openCameraCapture call: suspended at getUserMedia,
\* suspended at $nextTick, and returned with video.onloadedmetadata set
AtGetUserMedia == 1

AtNextTick == 2

AtLoadedMetadata == 3

\* `requestId !== this.cameraRequestId || !this.showCameraCapture`
Superseded(requestId) == requestId # cameraRequestId \/ ~showCameraCapture

\* the call at position i moves to the position slot
MoveTo(cs, i, slot) == [cs EXCEPT ![i].slot = slot]

\* openCameraCapture() up to `await getUserMedia`, entered with the image src
OpenCamera ==
    /\ cameraRequestId < MaxCameraRequests
    /\ showCameraCapture' = TRUE
    /\ cameraState' = "initializing"
    /\ capturedImageSrc' = ""
    /\ cameraRequestId' = cameraRequestId + 1
    /\ calls' = Suspend(calls, Call("openCameraCapture", "camera", "", cameraRequestId + 1,
                                    0, 0, 0, AtGetUserMedia))
    /\ UNCHANGED <<cameraStream, liveStreams>>

openCameraCapture ==
    /\ driven = "camera"
    /\ OpenCamera
    /\ UNCHANGED <<now, storage, searchVars, shelfVars, homeVars, driven, written, matchVars,
                   itunesVars, showRequests, currentView, ticks, budget, issued, loaded,
                   requested, merged>>

\* retakePhoto(): the two assignments, then `await this.openCameraCapture()`
retakePhoto ==
    /\ driven = "camera"
    /\ OpenCamera
    /\ UNCHANGED <<now, storage, searchVars, shelfVars, homeVars, driven, written, matchVars,
                   itunesVars, showRequests, currentView, ticks, budget, issued, loaded,
                   requested, merged>>

\* getUserMedia settles: with a stream when granted, else with an error
ResolveUserMedia(i, granted) ==
    /\ i \in DOMAIN calls
    /\ calls[i].fn = "openCameraCapture"
    /\ calls[i].slot = AtGetUserMedia
    /\ LET requestId == calls[i].arg
       IN IF ~granted
          THEN /\ cameraState' = IF Superseded(requestId) THEN cameraState ELSE "error"
               /\ calls' = RemoveAt(calls, i)
               /\ UNCHANGED <<cameraStream, liveStreams>>
          ELSE IF Superseded(requestId)
          THEN /\ calls' = RemoveAt(calls, i)
               /\ UNCHANGED <<cameraState, cameraStream, liveStreams>>
          ELSE /\ cameraStream' = requestId
               /\ liveStreams' = liveStreams \cup {requestId}
               /\ calls' = MoveTo(calls, i, AtNextTick)
               /\ UNCHANGED cameraState
    /\ UNCHANGED <<now, storage, searchVars, shelfVars, homeVars, driven, written, matchVars,
                   itunesVars, showCameraCapture, cameraRequestId, capturedImageSrc,
                   showRequests, currentView, ticks, budget, issued, loaded, requested,
                   merged>>

\* $nextTick settles; video: this.$refs.cameraVideo is there
ResolveNextTick(i, video) ==
    /\ i \in DOMAIN calls
    /\ calls[i].fn = "openCameraCapture"
    /\ calls[i].slot = AtNextTick
    /\ LET requestId == calls[i].arg
       IN IF Superseded(requestId)
          THEN /\ liveStreams' = liveStreams \ {requestId}
               /\ cameraStream' = 0
               /\ calls' = RemoveAt(calls, i)
               /\ UNCHANGED cameraState
          ELSE IF video
          THEN /\ calls' = MoveTo(calls, i, AtLoadedMetadata)
               /\ UNCHANGED <<cameraState, cameraStream, liveStreams>>
          ELSE /\ cameraState' = "error"
               /\ calls' = RemoveAt(calls, i)
               /\ UNCHANGED <<cameraStream, liveStreams>>
    /\ UNCHANGED <<now, storage, searchVars, shelfVars, homeVars, driven, written, matchVars,
                   itunesVars, showCameraCapture, cameraRequestId, capturedImageSrc,
                   showRequests, currentView, ticks, budget, issued, loaded, requested,
                   merged>>

\* video.onloadedmetadata fires
LoadedMetadata(i) ==
    /\ i \in DOMAIN calls
    /\ calls[i].fn = "openCameraCapture"
    /\ calls[i].slot = AtLoadedMetadata
    /\ cameraState' = IF Superseded(calls[i].arg) THEN cameraState ELSE "ready"
    /\ calls' = RemoveAt(calls, i)
    /\ UNCHANGED <<now, storage, searchVars, shelfVars, homeVars, driven, written, matchVars,
                   itunesVars, showCameraCapture, cameraStream, cameraRequestId,
                   capturedImageSrc, showRequests, currentView, liveStreams, ticks, budget,
                   issued, loaded, requested, merged>>

\* `if (this.cameraStream) { stop every track; this.cameraStream = null }`
StopCameraStream ==
    /\ liveStreams' = liveStreams \ {cameraStream}
    /\ cameraStream' = 0

closeCameraCapture ==
    /\ driven = "camera"
    /\ cameraRequestId < MaxCameraRequests
    /\ cameraRequestId' = cameraRequestId + 1
    /\ showCameraCapture' = FALSE
    /\ cameraState' = "initializing"
    /\ capturedImageSrc' = ""
    /\ StopCameraStream
    /\ UNCHANGED <<now, storage, calls, searchVars, shelfVars, homeVars, driven, written,
                   matchVars, itunesVars, showRequests, currentView, ticks, budget, issued,
                   loaded, requested, merged>>

\* capturePhoto(); elements: the video and the canvas are there
capturePhoto(elements) ==
    /\ driven = "camera"
    /\ showCameraCapture
    /\ IF ~elements
       THEN UNCHANGED <<capturedImageSrc, cameraState, cameraStream, liveStreams>>
       ELSE /\ capturedImageSrc' = "data:image/jpeg"
            /\ cameraState' = "captured"
            /\ StopCameraStream
    /\ UNCHANGED <<now, storage, calls, searchVars, shelfVars, homeVars, driven, written,
                   matchVars, itunesVars, showCameraCapture, cameraRequestId, showRequests,
                   currentView, ticks, budget, issued, loaded, requested, merged>>

\* navigateToLibrary, navigateToBookshelf(title) and navigateToRequests
Navigate(view) ==
    /\ driven = "camera"
    /\ showBookshelf' = (view = "bookshelf")
    /\ showRequests' = (view = "requests")
    /\ showCameraCapture' = FALSE
    /\ currentView' = view
    /\ UNCHANGED <<now, storage, calls, searchVars, sortedBooks, bookshelfBooks,
                   bookshelfType, bookshelfHasMore, loadingMoreBookshelf, homeVars, driven,
                   written, matchVars, itunesVars, cameraState, cameraStream,
                   cameraRequestId, capturedImageSrc, liveStreams, ticks, budget, issued,
                   loaded, requested, merged>>

navigateToLibrary == Navigate("library")

navigateToBookshelf == Navigate("bookshelf")

navigateToRequests == Navigate("requests")

NextCamera ==
    \/ openCameraCapture
    \/ \E i \in DOMAIN calls, granted \in BOOLEAN : ResolveUserMedia(i, granted)
    \/ \E i \in DOMAIN calls, video \in BOOLEAN : ResolveNextTick(i, video)
    \/ \E i \in DOMAIN calls : LoadedMetadata(i)
    \/ closeCameraCapture
    \/ \E elements \in BOOLEAN : capturePhoto(elements)
    \/ retakePhoto
    \/ navigateToLibrary
    \/ navigateToBookshelf
    \/ navigateToRequests

InitCamera == InitWith(0, {"camera"})

SpecCamera == InitCamera /\ [][NextCamera]_vars

(***************************************************************************)
(* Start-up: loadApp                                                       *)
(***************************************************************************)
\* the page /api/books?limit=6&offset=0 returns in such a run
FirstBooks ==
    << LibraryRecord(1, Str("It 2"), Str("King")),
       LibraryRecord(2, Str("It"), Str("King")),
       LibraryRecord(4, Str("Dune"), Str("Frank")),
       LibraryRecord(8, Str("Emma"), Str("Austen")),
       LibraryRecord(9, Str("Kim"), Str("Kipling")),
       LibraryRecord(10, Str("She"), Str("Haggard")) >>

\* What a fetch of /api/books may settle with.
BooksResponse(ok, newBooks) == [ok |-> ok, books |-> newBooks]

\* The page at offset 0 is FirstBooks.  The page at offset 6 is the seventh
\* record, alone or after the sixth (a record was deleted between the two
\* requests and the pages overlap).  Either fetch may fail.
BooksResponses(offset) ==
    IF offset = 0
    THEN { BooksResponse(FALSE, <<>>), BooksResponse(TRUE, FirstBooks) }
    ELSE { BooksResponse(FALSE, <<>>),
           BooksResponse(TRUE, <<LibraryRecord(3, Str("DUNE"), Arr(<<"Frank", "Herbert">>))>>),
           BooksResponse(TRUE, <<FirstBooks[6],
                                 LibraryRecord(3, Str("DUNE"), Arr(<<"Frank", "Herbert">>))>>) }

\* What the fetch of /api/requests may settle with.
RequestsResponses ==
    { Response(FALSE, Null),
      Response(TRUE, Payload(FALSE, FALSE, <<>>)),
      Response(TRUE, Payload(FALSE, TRUE, <<[id |-> 102]>>)) }

\* The body of a section's response that holds books.
AppBooks ==
    Payload(FALSE, TRUE, <<CatalogItem(101, Str("It"), Str("King")),
                           CatalogItem(102, Str("Dune: Messiah"), Str("Frank Herbert"))>>)

\* What the fetch of a section may settle with.
AppResponses ==
    { Response(FALSE, Null),
      Response(TRUE, Payload(TRUE, FALSE, <<>>)),
      Response(TRUE, AppBooks) }

\* What the fetch of the lists index settles with in such a run: no list.
AppListsResponses ==
    { Response(FALSE, Null),
      Response(TRUE, Payload(TRUE, FALSE, <<>>)),
      Response(TRUE, ListsPayload(<<>>)) }

\* the fields of the three sections, in the order loadHardcoverData starts their loaders
AppFields == <<"hardcoverRecentReleases", "hardcoverTrending", "hardcoverTrendingMonth">>

AppList(field) ==
    IF field = "hardcoverRecentReleases" THEN hardcoverRecentReleases
    ELSE IF field = "hardcoverTrending" THEN hardcoverTrending
    ELSE hardcoverTrendingMonth

\* sessionStorage outlives a reload of the page: an earlier load of the page
\* in this tab left the response of a section in the cache.
CachedSection(field) ==
    /\ driven = "app"
    /\ issued = 0
    /\ Sections[field].cacheKey \notin DOMAIN storage
    /\ storage' = FolioCache_set(storage, now, Sections[field].cacheKey, AppBooks,
                                 Sections[field].ttl, TRUE)
    /\ UNCHANGED <<now, calls, searchVars, shelfVars, homeVars, driven, cameraVars, itunesVars,
                   written, matchVars, ticks, budget, issued, loaded, requested, merged>>

\* init() has read a token and a library path; loadApp() runs up to its
\* await on loadBooks(6, 0, true), which is suspended at its fetch.  slot
\* holds the limit, arg tells isInitialLoad.
loadApp ==
    /\ driven = "app"
    /\ issued = 0
    /\ hardcoverToken' = TRUE
    /\ calls' = Suspend(calls, Call("loadBooks", "app", "", "initial", 0, 0, 0, 6))
    /\ issued' = issued + 1
    /\ UNCHANGED <<now, storage, searchVars, shelfVars, hardcoverLoading,
                   loadingHardcoverLists, hardcoverTrending, hardcoverTrendingMonth,
                   hardcoverRecentReleases, hardcoverSections, listPromises, driven, cameraVars, itunesVars,
                   written, matchVars, ticks, budget, loaded, requested, merged>>

\* The fetch of the suspended loadBooks call i settles with r.  The call
\* with isInitialLoad is the one loadApp awaits: loadApp goes on to its
\* Promise.all, where loadRequestedBooks() and loadReadingList() are
\* suspended at their fetches.
ResolveBooks(i, r) ==
    /\ i \in DOMAIN calls
    /\ calls[i].fn = "loadBooks"
    /\ r \in BooksResponses(calls[i].offset)
    /\ LET isInitialLoad == calls[i].arg = "initial"
           Fresh(b) == \A k \in DOMAIN libraryBooks : libraryBooks[k].id # b.id
           loadedBooks == IF r.ok
                          THEN IF isInitialLoad \/ calls[i].offset = 0
                               THEN r.books
                               ELSE libraryBooks \o SelectSeq(r.books, Fresh)
                          ELSE IF isInitialLoad THEN <<>> ELSE libraryBooks
       IN /\ libraryBooks' = loadedBooks
          /\ sortedBooks' = IF r.ok \/ isInitialLoad THEN loadedBooks ELSE sortedBooks
          /\ IF isInitialLoad
             THEN /\ calls' = Suspend(Suspend(RemoveAt(calls, i),
                                  Call("loadRequestedBooks", "app", "", "", 0, 0, 0, 0)),
                                  Call("loadReadingList", "app", "", "", 0, 0, 0, 0))
                  /\ issued' = issued + 2
             ELSE /\ calls' = RemoveAt(calls, i)
                  /\ issued' = issued
    /\ UNCHANGED <<now, storage, searchVars, showBookshelf, bookshelfBooks, bookshelfType,
                   bookshelfHasMore, loadingMoreBookshelf, homeVars, driven, cameraVars, itunesVars,
                   written, requestedBooks, given, annotated, probed, pass, serverRequests,
                   ticks, budget, loaded, requested, merged>>

\* A section loader of loadApp's loadHardcoverData up to its await: a cache
\* hit fills the section with the cached books matched against lib and
\* reqs, a miss suspends the call at its fetch.
MatchSection(a, field, parent, lib, reqs) ==
    LET sec == Sections[field]
        cached == FolioCache_get(a.storage, now, sec.cacheKey)
        matched == matchWithLibrary(BooksOrEmpty(cached.data), lib, reqs)
    IN IF Truthy(cached.data)
       THEN [a EXCEPT !.storage = cached.storage,
                      ![field] = IF matched.threw THEN @ ELSE matched.items]
       ELSE [a EXCEPT !.storage = cached.storage,
                      !.calls = Suspend(@, Call(sec.fn, "app", sec.cacheKey, field,
                                                0, 0, parent, 0)),
                      !.issued = @ + 1]

\* loadApp after its Promise.all, with cs the calls still suspended:
\* loadBooks(494, 6, false) runs up to its fetch and is not awaited, then
\* loadHardcoverData() starts its four loaders.
StartBackground(cs, lib, reqs) ==
    \E parent \in {issued + 1} :
    \E a0 \in {[HomeState EXCEPT
                   !.calls = Suspend(cs, Call("loadBooks", "app", "", "", 6, 0, 0, 494)),
                   !.issued = @ + 1]} :
    \E a1 \in {IF hardcoverToken THEN MatchSection(a0, AppFields[1], parent, lib, reqs) ELSE a0} :
    \E a2 \in {IF hardcoverToken THEN MatchSection(a1, AppFields[2], parent, lib, reqs) ELSE a0} :
    \E a3 \in {IF hardcoverToken THEN MatchSection(a2, AppFields[3], parent, lib, reqs) ELSE a0} :
    \E a \in {IF hardcoverToken THEN loadHardcoverLists(a3, parent) ELSE a0} :
       /\ storage' = a.storage
       /\ calls' = a.calls
       /\ issued' = a.issued
       /\ hardcoverRecentReleases' = a.hardcoverRecentReleases
       /\ hardcoverTrending' = a.hardcoverTrending
       /\ hardcoverTrendingMonth' = a.hardcoverTrendingMonth
       /\ hardcoverSections' = a.hardcoverSections
       /\ loadingHardcoverLists' = a.loadingHardcoverLists
       /\ hardcoverLoading' = (hardcoverToken /\ Awaited(a.calls, parent))

\* loadApp's Promise.all still waits for the call of fn
AppWaitsFor(cs, fn) == \E k \in DOMAIN cs : cs[k].view = "app" /\ cs[k].fn = fn

\* The fetch of the suspended loadRequestedBooks call i settles with r.
ResolveRequestedBooks(i, r) ==
    /\ i \in DOMAIN calls
    /\ calls[i].view = "app"
    /\ calls[i].fn = "loadRequestedBooks"
    /\ LET reqs == IF r.ok THEN BooksOrEmpty(r.data) ELSE requestedBooks
           cs == RemoveAt(calls, i)
       IN /\ requestedBooks' = reqs
          /\ IF AppWaitsFor(cs, "loadReadingList")
             THEN /\ calls' = cs
                  /\ UNCHANGED <<storage, issued, hardcoverLoading, loadingHardcoverLists,
                                 hardcoverTrending, hardcoverTrendingMonth,
                                 hardcoverRecentReleases, hardcoverSections>>
             ELSE StartBackground(cs, libraryBooks, reqs)
    /\ UNCHANGED <<now, searchVars, shelfVars, hardcoverToken, listPromises, driven, cameraVars, itunesVars,
                   written, libraryBooks, given, annotated, probed, pass, serverRequests,
                   ticks, budget, loaded, requested, merged>>

\* The fetch of the suspended loadReadingList call i settles; readingListIds
\* plays no part in the matching and is not kept.
ResolveReadingList(i) ==
    /\ i \in DOMAIN calls
    /\ calls[i].fn = "loadReadingList"
    /\ LET cs == RemoveAt(calls, i)
       IN IF AppWaitsFor(cs, "loadRequestedBooks")
          THEN /\ calls' = cs
               /\ UNCHANGED <<storage, issued, hardcoverLoading, loadingHardcoverLists,
                              hardcoverTrending, hardcoverTrendingMonth,
                              hardcoverRecentReleases, hardcoverSections>>
          ELSE StartBackground(cs, libraryBooks, requestedBooks)
    /\ UNCHANGED <<now, searchVars, shelfVars, hardcoverToken, listPromises, driven, cameraVars, itunesVars,
                   written, matchVars, ticks, budget, loaded, requested, merged>>

\* The fetch of the suspended section loader i of loadApp settles with r:
\* an error body or a rejection empties the section, any other body fills
\* it with its books matched against this.books as they are now, and is cached.
ResolveMatchedSection(i, r, quotaOk) ==
    /\ i \in DOMAIN calls
    /\ calls[i].view = "app"
    /\ calls[i].fn \in {Sections[f].fn : f \in DOMAIN Sections}
    /\ \E matched \in {IF r.ok /\ ~r.data.error
                        THEN matchWithLibrary(BooksOrEmpty(r.data), libraryBooks,
                                              requestedBooks)
                        ELSE MatchThrown} :
       LET field == calls[i].arg
           stores == r.ok /\ ~r.data.error
           shown == IF stores /\ ~matched.threw THEN matched.items ELSE <<>>
       IN /\ hardcoverRecentReleases' =
                IF field = "hardcoverRecentReleases" THEN shown ELSE hardcoverRecentReleases
          /\ hardcoverTrending' =
                IF field = "hardcoverTrending" THEN shown ELSE hardcoverTrending
          /\ hardcoverTrendingMonth' =
                IF field = "hardcoverTrendingMonth" THEN shown ELSE hardcoverTrendingMonth
          /\ storage' = IF stores /\ ~matched.threw
                        THEN FolioCache_set(storage, now, calls[i].cacheKey, r.data,
                                            Sections[field].ttl, quotaOk)
                        ELSE storage
          /\ loaded' = Settled(loaded, calls[i].cacheKey, now, r, quotaOk)
    /\ calls' = RemoveAt(calls, i)
    /\ hardcoverLoading' = IF Awaited(calls', calls[i].parent) THEN hardcoverLoading ELSE FALSE
    /\ UNCHANGED <<now, searchVars, shelfVars, hardcoverToken, loadingHardcoverLists,
                   hardcoverSections, listPromises, driven, cameraVars, itunesVars, written, matchVars, ticks,
                   budget, issued, requested, merged>>

\* The fetch of the lists index of loadApp's loadHardcoverLists settles
\* with r: without a list, hardcoverSections is emptied and the call returns.
ResolveEmptyLists(i, r) ==
    /\ i \in DOMAIN calls
    /\ calls[i].view = "home"
    /\ calls[i].fn = "loadHardcoverLists"
    /\ driven = "app"
    /\ ~r.ok \/ r.data.error \/ r.data.lists = <<>>
    /\ hardcoverSections' = <<>>
    /\ loadingHardcoverLists' = FALSE
    /\ calls' = RemoveAt(calls, i)
    /\ hardcoverLoading' = IF Awaited(calls', calls[i].parent) THEN hardcoverLoading ELSE FALSE
    /\ UNCHANGED <<now, storage, searchVars, shelfVars, hardcoverToken, hardcoverTrending,
                   hardcoverTrendingMonth, hardcoverRecentReleases, listPromises, driven, cameraVars, itunesVars,
                   written, matchVars, ticks, budget, issued, loaded, requested, merged>>

NextApp ==
    \/ \E field \in DOMAIN Sections : CachedSection(field)
    \/ loadApp
    \/ \E i \in DOMAIN calls, r \in BooksResponses(0) \cup BooksResponses(6) :
            ResolveBooks(i, r)
    \/ \E i \in DOMAIN calls, r \in RequestsResponses : ResolveRequestedBooks(i, r)
    \/ \E i \in DOMAIN calls : ResolveReadingList(i)
    \/ \E i \in DOMAIN calls, r \in AppResponses, quotaOk \in BOOLEAN :
            ResolveMatchedSection(i, r, quotaOk)
    \/ \E i \in DOMAIN calls, r \in AppListsResponses : ResolveEmptyLists(i, r)

InitApp == InitWith(0, {"app"})

SpecApp == InitApp /\ [][NextApp]_vars

(***************************************************************************)
(* Properties                                                              *)
(***************************************************************************)
\* the entry stored for key, if any
HasEntry(key) == ItemName(key) \in DOMAIN storage

\* C1: FolioCache.get returns the stored payload exactly while now < expiresAt;
\* from now = expiresAt on (a ttl of 0 included) the entry is absent.
C1_ValidOnlyBeforeExpiry ==
    \A key \in CacheKeys :
        HasEntry(key) =>
            (Truthy(FolioCache_get(storage, now, key).data)
                <=> now < storage[ItemName(key)].expiry)

\* the calls this step suspends at a fetch: the last issued' - issued of calls'
NewCalls == {calls'[j] : j \in (Len(calls') - (issued' - issued) + 1)..Len(calls')}

\* the TTL class of the view a call loads
TtlClass(c) ==
    CASE c.fn = "loadMoreiTunesSearch"       -> TTL.ITUNES_SEARCH
      [] c.fn = "loadHardcoverTrending"      -> TTL.HARDCOVER_TRENDING
      [] c.fn = "loadHardcoverTrendingMonth" -> TTL.HARDCOVER_TRENDING
      [] c.fn = "loadHardcoverRecent"        -> TTL.HARDCOVER_RECENT
      [] c.fn = "loadHardcoverList"          -> TTL.HARDCOVER_LIST
      [] c.fn = "openBookshelf"              -> BookshelfTTL(c.arg)
      [] OTHER                               -> 0

\* an earlier load of the key fetched a successful response and the cache accepted it
StoredLoad(key) == key \in DOMAIN loaded /\ loaded[key].ok /\ ~loaded[key].refused

\* C2 (as the spec states it): once a load of a view has completed, a second
\* load of that view within the view's TTL window issues no fetch.
C2_SecondLoadWithinTtlNeverFetches ==
    [][\A c \in NewCalls :
          ~(c.cacheKey \in DOMAIN loaded
            /\ now < loaded[c.cacheKey].end + TtlClass(c))]_vars

\* C2 (amended): once a load of a view has fetched a successful response and
\* the cache has accepted it, a second load of that view within the view's
\* TTL window issues no fetch.
C2_StoredLoadNotRefetched ==
    [][\A c \in NewCalls :
          ~(StoredLoad(c.cacheKey)
            /\ now < loaded[c.cacheKey].end + TtlClass(c))]_vars

\* C2, reached: the bookshelf shows a first page it never requested in this
\* sequence, a single fetch after the run began and inside the TTL window of
\* the stored load.
C2_Witness ==
    /\ bookshelfType = "trending"
    /\ requested.bookshelf = <<>>
    /\ merged.bookshelf # <<>>
    /\ issued = 1
    /\ StoredLoad(BookshelfCacheKey("trending"))
    /\ now < loaded[BookshelfCacheKey("trending")].end + TTL.HARDCOVER_TRENDING

\* the loaders that read the cache before they fetch
CachedLoaders ==
    {"loadMoreiTunesSearch", "loadHardcoverTrending", "loadHardcoverTrendingMonth",
     "loadHardcoverRecent", "loadHardcoverList", "openBookshelf"}

C4_SingleFlight ==
    \A view \in {"search", "bookshelf"} : Cardinality(PendingOf(view)) <= 1

\* C5: the search results hold only books returned for the current query.
C5_ResultsOfCurrentQuery ==
    \A i \in DOMAIN searchiTunesResults : searchiTunesResults[i].src = searchQuery

\* C6: the bookshelf holds only books returned for the bookshelf that is open.
C6_BooksOfOpenBookshelf ==
    \A i \in DOMAIN bookshelfBooks :
        showBookshelf /\ bookshelfBooks[i].src = bookshelfType

\* no two entries of a list carry the same external id
NoDuplicateIds(list) ==
    \A i, j \in DOMAIN list : i # j => list[i].id # list[j].id

\* C7: no external id occurs twice in the search results or in the bookshelf.
C7_NoDuplicateExternalId ==
    NoDuplicateIds(searchiTunesResults) /\ NoDuplicateIds(bookshelfBooks)

StrictlyIncreasing(pages) ==
    \A i \in 1..(Len(pages) - 1) : pages[i].offset < pages[i + 1].offset

\* C8: between two resets of a view the offsets fetched, and the offsets of
\* the pages merged, strictly increase: no offset is asked for twice.
C8_OffsetsStrictlyIncrease ==
    \A view \in {"search", "bookshelf"} :
        StrictlyIncreasing(requested[view]) /\ StrictlyIncreasing(merged[view])

\* C9: a loading flag is set only while a fetch of its loader is pending, so
\* it is back to false when the loader ends, however the fetch settled.
C9_FlagsNeverStuck ==
    /\ loadingSearchiTunes =>
          \E i \in DOMAIN calls : calls[i].fn = "loadMoreiTunesSearch"
    /\ loadingMoreBookshelf =>
          \E i \in DOMAIN calls : calls[i].fn = "loadMoreBookshelf"
    /\ loadingHardcoverLists =>
          \E i \in DOMAIN calls : calls[i].fn \in {"loadHardcoverLists", "loadHardcoverList"}
    /\ hardcoverLoading =>
          \E i \in DOMAIN calls : calls[i].view = "home"

\* C9, reached: every home fetch has settled, a curated list's among them
\* and one section's with a failure, and no flag is left set.
C9_Witness ==
    /\ driven = "home"
    /\ calls = <<>>
    /\ issued = MaxHomeCalls
    /\ ListCacheKey("7") \in DOMAIN loaded
    /\ hardcoverTrending = <<>>
    /\ hardcoverRecentReleases # <<>>
    /\ ~hardcoverLoading
    /\ ~loadingHardcoverLists

\* C10: after hasMore has become false no page is fetched and no page grows
\* the list until the view is reset.
C10_HasMoreFalseIsTerminal ==
    \A view \in {"search", "bookshelf"} :
        /\ \A i \in DOMAIN requested[view] : ~requested[view][i].late
        /\ \A i \in DOMAIN merged[view] : ~merged[view][i].late

\* the functions that load a home section
SectionFns == {Sections[f].fn : f \in DOMAIN Sections}

\* the field of the application a home section is shown from
HomeField(f) ==
    CASE f = "hardcoverRecentReleases" -> hardcoverRecentReleases
      [] f = "hardcoverTrending"       -> hardcoverTrending
      [] f = "hardcoverTrendingMonth"  -> hardcoverTrendingMonth

\* the list is populated, and with books returned for src only
OwnBooks(list, src) ==
    list # <<>> /\ \A i \in DOMAIN list : list[i].src = src

\* the list promise p of a Promise.all that this step settles carries books
ListHasBooks(p) ==
    IF p.done THEN p.books # <<>> ELSE loaded'[ListCacheKey(p.id)].ok

ViewKeys ==
    {[key |-> SearchCacheKey(q, k * pageSize), src |-> q] :
        q \in Queries, k \in 0..(MaxDeepCalls + 1)}
    \cup {[key |-> BookshelfCacheKey(type), src |-> type] :
            type \in {t \in BookshelfTypes : BookshelfCacheKey(t) # ""}}
    \cup {[key |-> Sections[f].cacheKey, src |-> f] : f \in DOMAIN Sections}
    \cup {[key |-> ListCacheKey(id), src |-> id] : id \in {"7", "8"}}

\* no two distinct views share a cache key
DistinctKeys == \A a, b \in ViewKeys : a.key = b.key => a.src = b.src

\* every item of the cache holds a response fetched for the view of its key
EntriesOfOwnView ==
    \A name \in DOMAIN storage :
        \E v \in ViewKeys :
            /\ name = ItemName(v.key)
            /\ \A i \in DOMAIN storage[name].data.books :
                  storage[name].data.books[i].src = v.src

\* every home section shows books of its own response
SectionsOfOwnResponse ==
    /\ \A f \in DOMAIN Sections :
          \A i \in DOMAIN HomeField(f) : HomeField(f)[i].src = f
    /\ \A s \in DOMAIN hardcoverSections :
          \A i \in DOMAIN hardcoverSections[s].books :
              hardcoverSections[s].books[i].src = hardcoverSections[s].id

\* C12: whatever the order in which the pending fetches of different views
\* complete, no two views share a cache key, every cache item holds the
\* response fetched for its view, and the list a view shows (a home section,
\* a curated list, the open bookshelf) comes from that view's own response.
C12_ViewsDoNotInterfere ==
    /\ DistinctKeys
    /\ EntriesOfOwnView
    /\ SectionsOfOwnResponse
    /\ showBookshelf =>
          \A i \in DOMAIN bookshelfBooks : bookshelfBooks[i].src = bookshelfType

\* some FolioCache.set call has been made
HasWritten == DOMAIN written # {}

\* C13: when the storage write inside FolioCache.set(key, ...) fails, a
\* following FolioCache.get(key) returns absent.
C13_FailedWriteReadsAbsent ==
    (HasWritten /\ ~written.ok) =>
        ~Truthy(FolioCache_get(storage, now, written.key).data)

C15_ClearEvictsAll ==
    [][CacheClear =>
          \A key \in CacheKeys :
              /\ ~Truthy(FolioCache_get(storage', now', key).data)
              /\ ItemName(key) \notin DOMAIN storage']_vars

\* C15, reached: the storage is empty although the item of the last set would
\* still be valid.
C15_Witness ==
    /\ HasWritten
    /\ written.ok
    /\ now < written.expiry
    /\ DOMAIN storage = {}

\* the match policy as the specification words it: rule A or rule B, every
\* threshold strict (0.85 = 17/20, 0.50 = 1/2, 0.70 = 7/10)
Policy(titleSim, authorSim) ==
    \/ titleSim.n * 20 > 17 * titleSim.d /\ authorSim.n * 2 > authorSim.d
    \/ titleSim.n * 10 > 7 * titleSim.d /\ authorSim.n * 10 > 7 * authorSim.d

\* the similarities of a catalog item and a library record, when the
\* normalization of their fields does not throw
PairSims(hardcoverBook, book) ==
    LET hcTitle == normalizeForMatching(hardcoverBook.title)
        hcAuthor == normalizeForMatching(hardcoverBook.author)
        libTitle == normalizeForMatching(book.title)
        libAuthor == normalizeForMatching(
                        IF book.authors.kind = "array"
                        THEN Str(join(book.authors.items, " "))
                        ELSE book.authors)
    IN [threw  |-> hcTitle.threw \/ hcAuthor.threw \/ libTitle.threw \/ libAuthor.threw,
        title  |-> calculateSimilarity(hcTitle.s, libTitle.s),
        author |-> calculateSimilarity(hcAuthor.s, libAuthor.s)]

\* the pair satisfies the match policy
Satisfies(hardcoverBook, book) ==
    LET sims == PairSims(hardcoverBook, book)
    IN ~sims.threw /\ Policy(sims.title, sims.author)

\* the positions of the library records that satisfy the policy for the item
Satisfying(hardcoverBook) ==
    {k \in DOMAIN libraryBooks : Satisfies(hardcoverBook, libraryBooks[k])}

\* a matchWithLibrary call has returned a list for the items in `given`
HasAnnotated == ~annotated.threw /\ given # <<>>

\* C16: a (catalog item, library record) pair is classified as a match if
\* and only if (titleSim > 0.85 and authorSim > 0.50) or (titleSim > 0.70
\* and authorSim > 0.70), every inequality strict: for every pair of
\* similarities the two tests of findLibraryMatch are applied to, and for
\* every item annotated against the library.
C16_MatchPolicy ==
    /\ probed.fn = "isMatch" =>
          (probed.result <=> Policy(probed.args[1], probed.args[2]))
    /\ HasAnnotated =>
          \A i \in DOMAIN given :
              annotated.items[i].inLibrary <=> Satisfying(given[i]) # {}

\* C16, reached: a title similarity of exactly 0.85 with an author
\* similarity of 0.6 has been tested and is no match.
C16_Witness ==
    /\ probed.fn = "isMatch"
    /\ probed.args = <<Frac(17, 20), Frac(12, 20)>>
    /\ ~probed.result

\* the least element of a non-empty set of positions
First(S) == CHOOSE k \in S : \A j \in S : k <= j

\* C17: for each catalog item matchWithLibrary reports the first record, in
\* the order of the library, that satisfies the match policy, whatever the
\* similarity of the records after it, and reports no match only when no
\* record of the library satisfies the policy.
C17_FirstMatchWins ==
    HasAnnotated =>
        \A i \in DOMAIN given :
            IF Satisfying(given[i]) = {}
            THEN /\ ~annotated.items[i].inLibrary
                 /\ annotated.items[i].libraryBookId = <<>>
            ELSE /\ annotated.items[i].inLibrary
                 /\ annotated.items[i].libraryBookId =
                        <<libraryBooks[First(Satisfying(given[i]))].id>>

\* C17, reached: two records satisfy the policy for an item, the later one
\* with the higher title similarity, and the item names the earlier one.
C17_Witness ==
    /\ HasAnnotated
    /\ \E i \in DOMAIN given :
          \E k1, k2 \in Satisfying(given[i]) :
              /\ k1 < k2
              /\ LET s1 == PairSims(given[i], libraryBooks[k1]).title
                     s2 == PairSims(given[i], libraryBooks[k2]).title
                 IN s2.n * s1.d > s1.n * s2.d
              /\ annotated.items[i].libraryBookId = <<libraryBooks[k1].id>>

\* C18: for every item matchWithLibrary returns, libraryBookId is present if
\* and only if inLibrary is true, and when present it is the id of exactly
\* one record of the library.
C18_MatchIdIffInLibrary ==
    HasAnnotated =>
        \A i \in DOMAIN annotated.items :
            LET item == annotated.items[i]
            IN /\ item.libraryBookId # <<>> <=> item.inLibrary
               /\ item.libraryBookId # <<>> =>
                     Cardinality({k \in DOMAIN libraryBooks :
                                     libraryBooks[k].id = item.libraryBookId[1]}) = 1

\* C18, reached: one call returned an item that is in the library, with the
\* id of its record, and an item that is not.
C18_Witness ==
    /\ HasAnnotated
    /\ \E i, j \in DOMAIN annotated.items :
          /\ annotated.items[i].inLibrary
          /\ annotated.items[i].libraryBookId # <<>>
          /\ ~annotated.items[j].inLibrary
          /\ annotated.items[j].libraryBookId = <<>>

\* C19: a title or author that is missing, null or not a string, in a
\* catalog item or in a library record, normalizes to the empty string, and
\* matchWithLibrary completes without raising.
C19_MalformedAbsorbed ==
    /\ ~annotated.threw
    /\ probed.fn = "normalizeForMatching" =>
          /\ ~probed.result.threw
          /\ probed.args[1].kind # "string" => probed.result.s = ""

\* C20: calculateSimilarity(a, b) is 1 whenever a and b are equal strings,
\* the empty string included.
C20_EqualStringsAreOne ==
    (probed.fn = "calculateSimilarity" /\ probed.args[1] = probed.args[2]) =>
        probed.result.n = probed.result.d

\* two similarities are the same number
SameNumber(f, g) == f.n * g.d = g.n * f.d

\* the path calculateSimilarity takes on two normalized strings
SimilarityPath(str1, str2) ==
    IF str1 = "" \/ str2 = "" THEN "empty"
    ELSE IF str1 = str2 THEN "equal"
    ELSE IF \/ \A w \in Range(split(str1, " ")) : Len(w) <= 2
            \/ \A w \in Range(split(str2, " ")) : Len(w) <= 2
    THEN "substring"
    ELSE "jaccard"

\* C21: calculateSimilarity(a, b) and calculateSimilarity(b, a) are the same
\* number for all normalized strings a and b, on every path: an empty
\* argument, equal strings, the substring fallback and the Jaccard quotient.
C21_SimilaritySymmetric ==
    probed.fn = "calculateSimilarity" =>
        SameNumber(probed.result, calculateSimilarity(probed.args[2], probed.args[1]))

\* C21, reached: the shorter string was passed first to the substring
\* fallback, which found it in the longer one and gave 0.8.
C21_Witness ==
    /\ probed.fn = "calculateSimilarity"
    /\ SimilarityPath(probed.args[1], probed.args[2]) = "substring"
    /\ Len(probed.args[1]) < Len(probed.args[2])
    /\ includes(probed.args[2], probed.args[1])
    /\ SameNumber(probed.result, Frac(8, 10))

\* C22: normalizeForMatching(normalizeForMatching(x)) is
\* normalizeForMatching(x) for every string x: strings with several colons,
\* with whitespace before or after the colon, and with characters outside
\* a-z and 0-9.
C22_NormalizeIdempotent ==
    (probed.fn = "normalizeForMatching" /\ probed.args[1].kind = "string") =>
        /\ ~probed.result.threw
        /\ normalizeForMatching(Str(probed.result.s)) = probed.result

\* C22, reached: a title with whitespace and a character outside a-z0-9
\* before its colon was normalized to a string that differs from it.
C22_Witness ==
    /\ probed.fn = "normalizeForMatching"
    /\ probed.args[1].kind = "string"
    /\ includes(probed.args[1].s, " ! :")
    /\ probed.result = Returned("dune")

\* the tokens of a normalized string, as the specification defines them:
\* the maximal runs of characters other than the space, longer than 2
Tokens(s) ==
    {SubSeq(s, i, j) : <<i, j>> \in
        {p \in (1..Len(s)) \X (1..Len(s)) :
            /\ p[2] - p[1] + 1 > 2
            /\ \A k \in p[1]..p[2] : CharAt(s, k) # " "
            /\ p[1] = 1 \/ CharAt(s, p[1] - 1) = " "
            /\ p[2] = Len(s) \/ CharAt(s, p[2] + 1) = " "}}

\* the similarity of two non-empty, unequal strings in the specification
ReferenceSimilarity(a, b) ==
    IF Tokens(a) = {} \/ Tokens(b) = {}
    THEN IF includes(a, b) \/ includes(b, a) THEN Frac(8, 10) ELSE Frac(0, 1)
    ELSE Frac(Cardinality(Tokens(a) \cap Tokens(b)), Cardinality(Tokens(a) \cup Tokens(b)))

\* C23: for two non-empty, unequal normalized strings calculateSimilarity
\* returns the reference value: with the tokens of a string being its
\* space-separated words longer than 2 characters, taken as a set, 0.8 or 0
\* when a token set is empty, according to whether one string contains the
\* other, and else the size of the intersection of the token sets over the
\* size of their union.
C23_SimilarityIsReference ==
    ( /\ probed.fn = "calculateSimilarity"
      /\ probed.args[1] # ""
      /\ probed.args[2] # ""
      /\ probed.args[1] # probed.args[2] ) =>
        SameNumber(probed.result, ReferenceSimilarity(probed.args[1], probed.args[2]))

\* C23, reached: two unequal strings that share one of their two tokens
\* were given the similarity 1/2.
C23_Witness ==
    /\ probed.fn = "calculateSimilarity"
    /\ probed.args[1] # probed.args[2]
    /\ Cardinality(Tokens(probed.args[1]) \cup Tokens(probed.args[2])) = 2
    /\ Cardinality(Tokens(probed.args[1]) \cap Tokens(probed.args[2])) = 1
    /\ SameNumber(probed.result, Frac(1, 2))

\* the field normalizes to the empty string
NormalizesToEmpty(v) == normalizeForMatching(v) = Returned("")

\* the joined authors of a library record, as findLibraryMatch passes them on
JoinedAuthors(book) ==
    IF book.authors.kind = "array" THEN Str(join(book.authors.items, " ")) ELSE book.authors

\* C24: a catalog item whose title or author normalizes to the empty
\* string is annotated inLibrary = false, with no libraryBookId, whatever
\* the library holds: also a record whose title and joined authors
\* normalize to the empty string as well.
C24_EmptyNeverMatches ==
    HasAnnotated =>
        \A i \in DOMAIN given :
            (NormalizesToEmpty(given[i].title) \/ NormalizesToEmpty(given[i].author)) =>
                /\ ~annotated.items[i].inLibrary
                /\ annotated.items[i].libraryBookId = <<>>

\* C24, reached: an item whose title and author both normalize to the
\* empty string was annotated against a library holding a record whose
\* title and joined authors do too, and is not in the library.
C24_Witness ==
    /\ HasAnnotated
    /\ \E i \in DOMAIN given :
          /\ NormalizesToEmpty(given[i].title)
          /\ NormalizesToEmpty(given[i].author)
          /\ ~annotated.items[i].inLibrary
    /\ \E k \in DOMAIN libraryBooks :
          /\ NormalizesToEmpty(libraryBooks[k].title)
          /\ NormalizesToEmpty(JoinedAuthors(libraryBooks[k]))

\* C25: one matchWithLibrary call over a batch reads one snapshot of
\* this.books and of this.requestedBooks: between the annotation of its
\* first and of its last item no completion of loadBooks, no bulk delete
\* and no response to requestBook or cancelRequest changes either, and the
\* list it assigns is the annotation of the batch against the library and
\* the requests as they were when the call began.
C25_PassReadsOneSnapshot ==
    [][pass # <<>> =>
          /\ libraryBooks' = libraryBooks
          /\ requestedBooks' = requestedBooks
          /\ \A field \in ViewFields :
                (pass.field = field /\ pass' = <<>>) =>
                    LET whole == matchWithLibrary(pass.items, pass.books, pass.requests)
                    IN IF whole.threw
                       THEN ViewList(field)' = ViewList(field)
                       ELSE ViewList(field)' = whole.items]_vars

\* C25, reached: the first item of a batch of two is annotated, the second
\* is not yet, and the response to a requestBook call is waiting.
C25_Witness ==
    /\ pass # <<>>
    /\ Len(pass.out) = 1
    /\ Len(pass.items) = 2
    /\ \E i \in DOMAIN calls : calls[i].fn = "requestBook" /\ calls[i].arg.ok

\* the id is the id of an entry of this.requestedBooks
IsRequested(id) == \E r \in DOMAIN requestedBooks : requestedBooks[r].id = id

\* C28: once every requestBook and cancelRequest call has returned, every
\* annotated item of every view list has requested = true exactly when its
\* id is the id of an entry of requestedBooks, also when the same book is
\* shown in more than one list.
C28_RequestedFlagsAgree ==
    (calls = <<>> /\ pass = <<>>) =>
        \A field \in ViewFields :
            \A i \in DOMAIN ViewList(field) :
                ViewList(field)[i].requested <=> IsRequested(ViewList(field)[i].id)

\* C26: the latest search wins.  Once no fetch of the search view is
\* pending and the query q last submitted is not blank, the first page of q
\* has been asked for, from the cache or from the provider, and
\* searchiTunesResults hold the books returned for q and no others: also
\* when the page fetch of an earlier search was pending when q was submitted.
C26_LatestSearchWins ==
    (driven = "search" /\ PendingOf("search") = {} /\ trim(searchQuery) # "") =>
        /\ SearchCacheKey(searchQuery, 0) \in DOMAIN loaded \/ merged.search # <<>>
        /\ \A i \in DOMAIN searchiTunesResults : searchiTunesResults[i].src = searchQuery

\* the items of the cache
CachedData == {storage[name].data : name \in DOMAIN storage}

\* C29: only successful responses are cached.  No item of FolioCache holds
\* a response that carries an error: a payload with an error field or
\* without a books list, whichever caller stored it, checkiTunesMatch and
\* searchItunesForMetadata included.
C29_OnlySuccessCached ==
    \A data \in CachedData : ~data.error /\ data.hasBooks

\* an openCameraCapture call is suspended at one of its awaits
CameraCallSuspended ==
    \E i \in DOMAIN calls :
        calls[i].fn = "openCameraCapture" /\ calls[i].slot \in {AtGetUserMedia, AtNextTick}

\* C30: no camera stream is held while the camera modal is hidden.  In
\* every state in which no openCameraCapture call is suspended,
\* showCameraCapture = false implies cameraStream = null, whatever the
\* interleaving of openCameraCapture, closeCameraCapture, capturePhoto,
\* retakePhoto, a late getUserMedia resolution and the navigation handlers.
C30_NoStreamWhileHidden ==
    (driven = "camera" /\ ~CameraCallSuspended) =>
        (~showCameraCapture => cameraStream = 0)

\* loadApp has run and every load it started has completed
AppSettled == driven = "app" /\ issued > 0 /\ calls = <<>>

\* C27: once the background library load loadBooks(494, 6) and the catalog
\* loads started by loadApp have all completed, in whichever order, the
\* inLibrary flag of every item shown in a section equals the result of
\* findLibraryMatch against the books list as it is then
C27_AnnotationsNotStale ==
    AppSettled =>
        \A k \in DOMAIN AppFields : \A j \in DOMAIN AppList(AppFields[k]) :
            AppList(AppFields[k])[j].inLibrary
                = (findLibraryMatch(AppList(AppFields[k])[j], libraryBooks).match # <<>>)

====
